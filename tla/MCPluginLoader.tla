---------------------------- MODULE MCPluginLoader ----------------------------
(***************************************************************************)
(* Instance of PluginLoader for TLC: three executables, of which one has   *)
(* an upper-case letter in its name, a checksum entry for one that is not  *)
(* there, and three names to choose from.                                  *)
(***************************************************************************)
EXTENDS PluginLoader

ThreePaths == <<"Mock", "tpm", "tsm">>
OneMixedCase == {"Mock"}
OneElsewhere == {"sev"}
ThreeNames == {"mock-tsm", "tpm", "tsm-report"}

=============================================================================
