--------------------------- MODULE MCChunkedUpload ---------------------------
(* One upload and two requests of a device that may have one open.          *)
EXTENDS ChunkedUpload
=============================================================================
