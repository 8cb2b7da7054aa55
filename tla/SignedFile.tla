----------------------------- MODULE SignedFile -----------------------------
(***************************************************************************)
(* A file of LanScanMan's configuration and the signature kept in a second *)
(* file beside it (core/integrity.py).  A signature is the contents it was *)
(* made for: it verifies exactly those.  Each file is replaced atomically; *)
(* the two of them are not, so a file and its signature are read, and      *)
(* written, in two steps.                                                  *)
(***************************************************************************)

CONSTANT None   \* no file, no signature, no key

NoFile == [data |-> None, sig |-> None]

\* The contents read are those the signature read was made for.
Verifies(data, sig) == sig # None /\ sig = data

\* A file that does not exist is read without looking at its signature.
Readable(f) == f.data = None \/ Verifies(f.data, f.sig)

\* write(): first the contents, then their signature.
WithData(f, c) == [f EXCEPT !.data = c]
WithSig(f, c)  == [f EXCEPT !.sig = c]
=============================================================================
