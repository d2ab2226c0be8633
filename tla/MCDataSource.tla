---------------------------- MODULE MCDataSource ----------------------------
(* DataSource with interchangeable pollers.                                  *)
EXTENDS DataSource, TLC

PollerSymmetry == Permutations(Pollers)
=============================================================================
