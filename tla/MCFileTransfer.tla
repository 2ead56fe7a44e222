--------------------------- MODULE MCFileTransfer ---------------------------
(* Instances of FileTransfer for TLC. Where packets can be delivered more   *)
(* than once the file is short: repetition needs few packets, and a wrap    *)
(* of the sequence numbers, which needs many, is covered without.           *)
EXTENDS FileTransferInv

CONSTANT ShortSize  \* bound: the longest file when packets can be repeated

MCInit == Init /\ (at_most_once \/ setup.file_size <= ShortSize)
MCSpec == MCInit /\ [][Next]_vars /\ Fairness
=============================================================================
