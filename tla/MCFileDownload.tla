--------------------------- MODULE MCFileDownload ---------------------------
(***************************************************************************)
(* Small instances of FileDownload.  A manifest entry is written as a      *)
(* sequence of chunk ids; chunk i of it lies in slot i.                    *)
(***************************************************************************)
EXTENDS FileDownload, TLC

CONSTANTS ca, cb, cc, v1, v2, v3

Entry(ids) ==
    [size   |-> Len(ids),
     chunks |-> [i \in 1 .. Len(ids) |-> [id |-> ids[i], off |-> i, sum |-> ids[i]]]]

\* one version of three chunks; the last has no offset: it is fetched and
\* not written
OneVersion == v1 :> [Entry(<<ca, cb, cc>>) EXCEPT !.size = 2, !.chunks[3].off = None]

\* chunks that stay, move, go and come; a version that is shorter
Upgrades == v1 :> Entry(<<ca, cb>>) @@ v2 :> Entry(<<cb, cc>>) @@ v3 :> Entry(<<cb>>)
=============================================================================
