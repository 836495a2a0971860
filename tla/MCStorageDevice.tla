--------------------------- MODULE MCStorageDevice --------------------------
(* A device name with a hard disk that fails or a USB stick behind it.     *)
EXTENDS StorageDevice

MCDrives == {[class |-> "hdd", serial |-> "A", healthy |-> FALSE],
             [class |-> "stick", serial |-> "B", healthy |-> TRUE]}
=============================================================================
