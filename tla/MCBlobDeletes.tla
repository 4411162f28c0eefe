--------------------------- MODULE MCBlobDeletes ---------------------------
(* TLC instances of BlobDeletes.                                           *)
EXTENDS BlobDeletes

CONSTANTS m1, m2, c1, c2

TwoMails == {m1, m2}
TwoCalls == {c1, c2}

AllFaults == {"put", "delete", "crash"}

=============================================================================
