---------------------------- MODULE MCDeployment ----------------------------
(* Two publishes; the tables of revisions 1, 3 and 3 that the others hang on. *)
EXTENDS Deployment, TLC

CONSTANTS p1, p2

MCPublishers == {p1, p2}
MCWatched == {"tenants", "products", "plans"}

\* Two publishes that have not begun are alike.
Symmetry == Permutations(MCPublishers)

\* A server where nothing has been published: no table, no image, no API and no
\* .env.production.
FirstInit == Init /\ rev = 0
FirstSpec == FirstInit /\ [][Next]_vars
=============================================================================
