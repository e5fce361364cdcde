--------------------------- MODULE DepotManifest ---------------------------
(***************************************************************************)
(* Depot manifests: the two file formats and the encrypted names.          *)
(*                                                                         *)
(*   crates/steam/src/depot/manifest.rs       DepotManifest                *)
(*   crates/steam-client/src/manifest.rs      extract_and_parse            *)
(*                                                                         *)
(* Bytes are what the readers tell apart: a manifest in format 4 is a      *)
(* header and a sequence of entries, one in format 5 a sequence of         *)
(* sections, and a file that was cut is a prefix of that.  This module has *)
(* no state of its own: FfiClient and Commands hold manifests.             *)
(***************************************************************************)
EXTENDS Integers, Sequences, FiniteSets

\* what a failed parse returns
Error == [error |-> TRUE]

(* Names: absent, empty, readable, encrypted, encrypted and damaged, or    *)
(* the nonsense that comes of a wrong key or of damage if the padding      *)
(* happens to be right.                                                    *)
NoName == [kind |-> "none", name |-> 0]

\* how names compare: by their bytes, an absent one as an empty one
Rank(name) == CASE name.kind \in {"none", "empty"} -> 0
                [] name.kind = "junk" -> 100 + name.name
                [] OTHER -> name.name

Entry ==
    [name : [kind : {"none", "empty", "plain", "secret", "damaged", "junk"}, name : Nat],
     size : Nat, link : Nat]

\* what a publisher writes lists a file once, and says so when its names are
\* encrypted
WellPublished(p) ==
    /\ p.encrypted \in BOOLEAN /\ p.files \in Seq(Entry)
    /\ \A i, j \in DOMAIN p.files :
          p.files[i].name.name = p.files[j].name.name => i = j
    /\ ~p.encrypted =>
          \A i \in DOMAIN p.files : p.files[i].name.kind \notin {"secret", "damaged"}

-----------------------------------------------------------------------------
(* The formats.                                                            *)

\* what a publisher writes: f is [name, size, link], link = 0 for none
Written4(encrypted, files) ==
    <<[version |-> 4, encrypted |-> encrypted, mappings |-> Len(files)]>> \o files

Written5(encrypted, files) ==
    <<[magic |-> "payload", body |-> files], [magic |-> "metadata", body |-> encrypted],
      [magic |-> "signature", body |-> "unchecked"], [magic |-> "end", body |-> "none"]>>

\* an entry of format 4 always has a name, if only an empty one, and never a
\* link target
Mapping4(f) ==
    [name |-> IF f.name.kind = "none" THEN [f.name EXCEPT !.kind = "empty"] ELSE f.name,
     size |-> f.size, link |-> 0]

\* every field must be there up to the size the header announces; what
\* follows it, the end marker too, is not read
parse_v4(data) ==
    IF data = <<>> \/ Head(data).version # 4 \/ Len(data) < 1 + Head(data).mappings
    THEN Error
    ELSE [filenames_encrypted |-> Head(data).encrypted,
          files |-> [i \in 1 .. Head(data).mappings |-> Mapping4(data[i + 1])]]

Sections == {"payload", "metadata", "signature"}

\* the first section that ends the loop: the end, or one that cannot be used
Stop(data) ==
    CHOOSE i \in 1 .. Len(data) + 1 :
        /\ i <= Len(data) => data[i].magic \notin Sections
        /\ \A j \in 1 .. i - 1 : data[j].magic \in Sections

Of(data, magic) == {i \in 1 .. Stop(data) - 1 : data[i].magic = magic}

\* a later section of a kind replaces an earlier one
Last(data, magic) ==
    data[CHOOSE i \in Of(data, magic) : \A j \in Of(data, magic) : j <= i].body

\* the end marker is needed, and a payload and a metadata section before it
parse_v5(data) ==
    IF \/ Stop(data) > Len(data) \/ data[Stop(data)].magic # "end"
       \/ Of(data, "payload") = {} \/ Of(data, "metadata") = {}
    THEN Error
    ELSE [filenames_encrypted |-> Last(data, "metadata"), files |-> Last(data, "payload")]

\* the first four bytes tell the formats apart
parse(data) ==
    IF data = <<>> THEN Error
    ELSE IF "version" \in DOMAIN Head(data) THEN parse_v4(data) ELSE parse_v5(data)

\* the directory of an archive is at its end: a download that was cut is no
\* archive, and neither is an error page
extract_and_parse(body) == IF body.whole THEN parse(body.data) ELSE Error

-----------------------------------------------------------------------------
(* The names.                                                              *)

Bad == [kind |-> "bad", name |-> 0]

\* what decrypt_filename may make of a name.  Nothing checks the result but
\* the padding: a damaged name, or the wrong key, may give nonsense.  A name
\* that is readable already, an empty one too, is not base64 or too short.
decrypt_filename(name, key) ==
    CASE name.kind = "secret" /\ key = "right" -> {[name EXCEPT !.kind = "plain"]}
      [] \/ name.kind = "secret" /\ key # "right"
         \/ name.kind = "damaged" -> {Bad, [name EXCEPT !.kind = "junk"]}
      [] name.kind = "none" -> {name}
      [] OTHER -> {Bad}

\* every way the names of the files may come out
Decryptions(files, key) ==
    LET Names == UNION {decrypt_filename(files[i].name, key) : i \in DOMAIN files}
    IN  {to \in [DOMAIN files -> Names] :
            \A i \in DOMAIN files : to[i] \in decrypt_filename(files[i].name, key)}

\* entry i comes before entry j: sort_by keeps the order of equal names
Before(files, i, j) ==
    \/ Rank(files[i].name) < Rank(files[j].name)
    \/ Rank(files[i].name) = Rank(files[j].name) /\ i < j

Place(files, i) == Cardinality({j \in DOMAIN files : Before(files, j, i)}) + 1

SortedByName(files) ==
    [n \in DOMAIN files |-> files[CHOOSE i \in DOMAIN files : Place(files, i) = n]]

\* the first n files, renamed
Renamed(files, to, n) ==
    [i \in DOMAIN files |-> IF i <= n THEN [files[i] EXCEPT !.name = to[i]] ELSE files[i]]

\* how many names come before the first that fails
Done(to) ==
    CHOOSE n \in 0 .. Len(to) :
        /\ \A i \in 1 .. n : to[i] # Bad
        /\ n < Len(to) => to[n + 1] = Bad

Decrypted(files) == [ok |-> TRUE, m |-> [filenames_encrypted |-> FALSE, files |-> files]]

\* mutant: a name that cannot be decrypted is passed over
decrypt_filenames_Skips(m, key) ==
    IF ~m.filenames_encrypted THEN {[ok |-> TRUE, m |-> m]}
    ELSE {Decrypted([i \in DOMAIN m.files |->
              IF to[i] = Bad THEN m.files[i] ELSE [m.files[i] EXCEPT !.name = to[i]]]) :
          to \in Decryptions(m.files, key)}

\* mutant: the names are sorted, the rest of the entries is not
decrypt_filenames_SortsNames(m, key) ==
    IF ~m.filenames_encrypted THEN {[ok |-> TRUE, m |-> m]}
    ELSE {LET files == Renamed(m.files, to, Done(to))
          IN  IF Done(to) < Len(m.files) THEN [ok |-> FALSE, m |-> [m EXCEPT !.files = files]]
              ELSE Decrypted([i \in DOMAIN files |->
                       [files[i] EXCEPT !.name = SortedByName(files)[i].name]]) :
          to \in Decryptions(m.files, key)}

\* in the order of the file, stopping at the first name that fails: the ones
\* before it stay decrypted, nothing is sorted and the flag stays
decrypt_filenames(m, key) ==
    IF ~m.filenames_encrypted THEN {[ok |-> TRUE, m |-> m]}
    ELSE {LET files == Renamed(m.files, to, Done(to))
          IN  IF Done(to) < Len(m.files) THEN [ok |-> FALSE, m |-> [m EXCEPT !.files = files]]
              ELSE Decrypted(SortedByName(files)) :
          to \in Decryptions(m.files, key)}
=============================================================================
