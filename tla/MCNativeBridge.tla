-------------------------- MODULE MCNativeBridge --------------------------
(* One handle and two of the threads that share it, which between them     *)
(* make every call; and the three threads of a terminal that a transfer    *)
(* runs commands through.                                                  *)
EXTENDS NativeBridge, TLC

CONSTANTS reader, writer, worker

TwoThreads == {writer, worker}
AnyCall    ==
  writer :> (Call \ (StopsAtAgain \cup {"sftpUpload", "sftpDownload"}))
  @@ worker :> StopsAtAgain \cup {"execWithResult", "sftpUpload", "sftpDownload"}

Terminal  == {reader, writer, worker}
ExecCalls == reader :> {"read"} @@ writer :> {"write"} @@ worker :> {"openShell", "exec"}
=============================================================================
