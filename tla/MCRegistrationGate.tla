-------------------------- MODULE MCRegistrationGate --------------------------
(* Instances of RegistrationGate for TLC.  Registrars are interchangeable; *)
(* producers are not, the registrar visits them in order.                  *)
EXTENDS RegistrationGate, TLC

AnyRegistrar == Permutations(Registrars)
=============================================================================
