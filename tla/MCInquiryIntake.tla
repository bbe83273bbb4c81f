-------------------------- MODULE MCInquiryIntake ---------------------------
(* Small instances of InquiryIntake. *)
EXTENDS InquiryIntake, TLC

Symmetric == Permutations(Inquiries) \cup Permutations(Requests)

=============================================================================
