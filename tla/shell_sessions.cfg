SPECIFICATION FairSpec
CONSTANTS
  list1 = list1
  list2 = list2
  stop = stop
  osgi_list = osgi_list
  osgi_ls = osgi_ls
  osgi_stop = osgi_stop
  Nobody = Nobody
  Shells = {s}
  Execs = {}
  Scripts = {t}
  Commands = {list1, list2}
  Lines = {osgi_list, osgi_ls}
  FullName <- MCFullName
  FullAliases <- MCFullAliases
  MaxLines = 2
CHECK_DEADLOCK FALSE
INVARIANTS OneExit
PROPERTIES EndsOnRequest SessionEnds LookupEnds
