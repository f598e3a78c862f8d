-------------------------- MODULE MCShellSession --------------------------
(***************************************************************************)
(* Small instances of ShellSession for TLC: two bundles with a command     *)
(* list, one of them with the alias ls, and a command stop whose alias is  *)
(* also list.                                                              *)
(***************************************************************************)
EXTENDS ShellSession

CONSTANTS list1, list2, stop
CONSTANTS osgi_list, osgi_ls, osgi_stop

MCFullName == [c \in Commands |-> IF c = stop THEN osgi_stop ELSE osgi_list]

MCFullAliases == [c \in Commands |->
  CASE c = list1 -> {osgi_ls} [] c = stop -> {osgi_list} [] OTHER -> {}]

=============================================================================
