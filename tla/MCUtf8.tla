------------------------------- MODULE MCUtf8 -------------------------------
(* The bytes at which the classes of the tables change: every class has a  *)
(* member.  Longer strings are made of characters of two, five and six     *)
(* bytes.                                                                  *)
EXTENDS Utf8

EdgeBytes ==
  {127, 128, 143, 144, 159, 160, 175, 183, 190, 191, 193, 194, 224, 225, 237, 239,
   240, 243, 244, 245}
LongBytes == {128, 132, 136, 194, 248, 252}

=============================================================================
