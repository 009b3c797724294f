------------------------- MODULE MCPackageLifecycle -------------------------
(* Instances of PackageLifecycle for TLC. *)
EXTENDS PackageLifecycle, TLC

CONSTANTS web, blog, r1, r2

OnePkg == {web}
TwoPkgs == {web, blog}
OneReq == {r1}
TwoReqs == {r1, r2}
None == {}

(* Requests are interchangeable: nothing orders them. *)
Symmetric == Permutations(TwoReqs)

(* What clients and the machine do in each run. *)
Requests == {"install", "reuse", "uninstall", "keep", "disable", "enable",
             "purge", "purgeUninstalled"}
Operations == {"install", "reuse", "uninstall", "keep", "disable", "enable", "unitStart"}
Recoveries == (Requests \ {"keep", "reuse"}) \cup {"unitStart", "disconnect", "reboot"}
Updates == {"install", "uninstall", "disable", "unitStart", "unitStop", "refresh", "reboot"}
Disconnects == {"install", "uninstall", "disconnect"}
Toggles == {"install", "uninstall", "disable", "enable"}
Disables == {"install", "disable", "enable", "refresh"}
(* Unit files are found by the prefix repo-name-version*: "1" also finds the  *)
(* files of "10", which version 2 stands for here.                           *)
PrefixOf == {<<<<web, 1>>, <<web, 2>>>>}
(* The separator is part of names: the glob of web at version 1 also finds    *)
(* the files of a package called web-1, which blog stands for.               *)
NamePrefix == {<<<<web, 1>>, <<blog, 1>>>>}

JustBlog == {blog}
=============================================================================
