----------------------------- MODULE MCCommands -----------------------------
(***************************************************************************)
(* Small instances of Commands.                                            *)
(***************************************************************************)
EXTENDS Commands, TLC

\* digits, upper case, lower case
Order ==
    <<"10", "9", "Beta", "appinfo", "beta", "branches", "buildid", "depots",
      "encryptedmanifests", "gid", "language", "manifests", "osarch", "oslist", "public">>

LowerCase ==
    [k \in {Order[i] : i \in DOMAIN Order} |-> IF k = "Beta" THEN "beta" ELSE k]

Depot(os, language, public, encrypted) ==
    [os |-> os, arch |-> None, language |-> language, public |-> public, encrypted |-> encrypted]

Nowhere == [b \in {} |-> None]

\* a depot for two systems, without a beta, and one whose beta is encrypted;
\* a depot for any system, and one without a manifest; a depot whose beta can
\* be read only with its password
Games ==
    {[depots |-> ("10" :> Depot("windows,linux", None, [public |-> "101"], Nowhere))
                 @@ ("9" :> Depot(None, "french", [public |-> "102"], [beta |-> "103"])),
      builds |-> [public |-> "1", beta |-> "2"]],
     [depots |-> ("10" :> Depot(None, None, [public |-> "101", beta |-> "103"], Nowhere))
                 @@ ("9" :> Depot("windows", None, Nowhere, Nowhere)),
      builds |-> [public |-> "1"]],
     [depots |-> "10" :> Depot(None, None, [public |-> "101"], [beta |-> "c0ffee"]),
      builds |-> [public |-> "1", beta |-> "2"]]}

F(kind, name) == [name |-> [kind |-> kind, name |-> name], size |-> name, link |-> 0]

Contents ==
    ("101" :> [encrypted |-> FALSE, files |-> <<F("plain", 1)>>])
    @@ ("102" :> [encrypted |-> TRUE, files |-> <<F("secret", 2), F("secret", 1)>>])
    @@ ("103" :> [encrypted |-> TRUE, files |-> <<F("secret", 1), F("damaged", 2)>>])

Line ==
    [compat |-> FALSE, command |-> "download", app |-> TRUE, manifest_only |-> FALSE,
     pubfile |-> FALSE, depots |-> <<>>, manifests |-> <<>>, branch |-> "public",
     password |-> FALSE, os |-> None, arch |-> None, language |-> None, output |-> FALSE,
     raw |-> FALSE]

Calls ==
    {Line, [Line EXCEPT !.branch = "Beta", !.password = TRUE], [Line EXCEPT !.branch = "beta"],
     [Line EXCEPT !.branch = "beta", !.password = TRUE],
     [Line EXCEPT !.os = "linux", !.output = TRUE], [Line EXCEPT !.language = "english"],
     [Line EXCEPT !.manifests = <<"102">>, !.branch = "beta"],
     [Line EXCEPT !.depots = <<"9">>, !.manifests = <<"1">>],
     [Line EXCEPT !.depots = <<"9", "10">>, !.manifests = <<"103">>],
     [Line EXCEPT !.manifests = <<"101", "102">>],
     [Line EXCEPT !.command = "info"], [Line EXCEPT !.command = "workshop"],
     [Line EXCEPT !.command = "manifests", !.branch = "beta"],
     [Line EXCEPT !.command = "manifests", !.depots = <<"9">>],
     [Line EXCEPT !.command = "files", !.depots = <<"9">>],
     [Line EXCEPT !.command = "files", !.depots = <<"10">>, !.manifests = <<"102">>, !.raw = TRUE]}
    \cup {[Line EXCEPT !.compat = TRUE, !.app = app_given, !.manifest_only = only,
                       !.pubfile = item, !.depots = ids] :
              app_given \in BOOLEAN, only \in BOOLEAN, item \in BOOLEAN,
              ids \in {<<>>, <<"9", "10">>}}
=============================================================================
