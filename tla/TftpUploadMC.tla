---------------------------- MODULE TftpUploadMC ----------------------------
(* Files of one to three full blocks, with and without a shorter rest, that  *)
(* the server accepts or refuses.                                            *)
EXTENDS TftpUpload

MCUploads ==
  [op: {"write"}, valid: BOOLEAN, opt: {FALSE}, full: 1 .. 3, rest: BOOLEAN]
=============================================================================
