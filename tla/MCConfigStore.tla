---------------------------- MODULE MCConfigStore ---------------------------
(* The configuration with two settings in one section, each with its       *)
(* default and one other value.                                            *)
EXTENDS ConfigStore

MCName == {"gui", "w", "h"}
MCKey == {<<"gui", "w">>, <<"gui", "h">>}
MCValue == {"dflt", "other"}
MCDefault == [k \in MCKey |-> "dflt"]
=============================================================================
