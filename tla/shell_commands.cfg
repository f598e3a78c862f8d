SPECIFICATION Spec
CONSTANTS
  list1 = list1
  list2 = list2
  stop = stop
  osgi_list = osgi_list
  osgi_ls = osgi_ls
  osgi_stop = osgi_stop
  Nobody = Nobody
  Shells = {s}
  Execs = {e}
  Scripts = {}
  Commands = {list1, list2, stop}
  Lines = {osgi_list, osgi_ls, osgi_stop}
  FullName <- MCFullName
  FullAliases <- MCFullAliases
  MaxLines = 1
CHECK_DEADLOCK FALSE
INVARIANTS RunsPermitted RunsAsked
