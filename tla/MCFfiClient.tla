---------------------------- MODULE MCFfiClient ----------------------------
(***************************************************************************)
(* Small instances of FfiClient.                                           *)
(***************************************************************************)
EXTENDS FfiClient

F(kind, name, size, link) ==
    [name |-> [kind |-> kind, name |-> name], size |-> size, link |-> link]

\* readable names out of order; encrypted ones; one of them damaged; an entry
\* without a name
Versions ==
    {[encrypted |-> FALSE, files |-> <<F("plain", 2, 10, 0), F("plain", 1, 20, 3)>>],
     [encrypted |-> TRUE, files |-> <<F("secret", 3, 10, 0), F("secret", 1, 20, 0), F("secret", 2, 30, 2)>>],
     [encrypted |-> TRUE, files |-> <<F("secret", 2, 10, 0), F("damaged", 3, 20, 0), F("none", 0, 30, 0)>>]}
=============================================================================
