-------------------------- MODULE MCAdmissionQueue --------------------------
EXTENDS AdmissionQueue, TLC

QueueSymmetry == Permutations(Users) \cup Permutations(JoinRequests)
=============================================================================
