--------------------------- MODULE MCTransferQueue ---------------------------
(* Instances of TransferQueue for TLC. *)
EXTENDS TransferQueue, TLC

CONSTANTS w1, w2, a, b, c, h1, h2

Workers == {w1, w2}

(* Two uploads and a download; a and b go to the same host. *)
Tasks == {a, b, c}
Hosts == {h1, h2}
HostOf == (a :> h1) @@ (b :> h1) @@ (c :> h2)
KindOf == (a :> "upload") @@ (b :> "download") @@ (c :> "upload")

TwoTasks == {a, b}
OneHost == {h1}
HostOfTwo == (a :> h1) @@ (b :> h1)
KindOfTwo == (a :> "upload") @@ (b :> "download")
Downloads == (a :> "download") @@ (b :> "download")
WorkerSymmetry == Permutations(Workers)
=============================================================================
