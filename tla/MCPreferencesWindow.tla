------------------------- MODULE MCPreferencesWindow ------------------------
(* One device and one type beside the empty ones, one setting of the       *)
(* dialog and one of another window; files with a device listed twice,     *)
(* without a type, without a name, and with something else.                *)
EXTENDS PreferencesWindow

CONSTANTS sda, sat, permissive, unbalanced

MCDefault == [s \in {"smartctl_options", "default_size_w"} |-> 0]

Entry(device, type, params) == [device |-> device, type |-> type, params |-> params]

MCListed == {<<>>,
             <<Entry(sda, sat, permissive), Entry(sda, sat, unbalanced)>>,
             <<Malformed, Entry(sda, Empty, permissive)>>,
             <<Entry(sda, Empty, Empty), Entry(Empty, sat, permissive)>>}
=============================================================================
