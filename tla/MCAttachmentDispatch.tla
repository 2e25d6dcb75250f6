------------------------ MODULE MCAttachmentDispatch -----------------------
(* TLC instances of AttachmentDispatch, with the retry limits of the code.  *)
EXTENDS AttachmentDispatch
============================================================================
