----------------------------- MODULE Respelling -----------------------------
(***************************************************************************)
(* One thing in the world, say a host, and the sources that report it: each*)
(* spells its value differently, and now and then an export of the         *)
(* inventory is imported again.  `stored` are the values under which stages*)
(* 1 to 4 of the import know the thing (app/services/import_pipeline.py).  *)
(***************************************************************************)
EXTENDS Normalization

CONSTANTS MaxSent,   \* bound on the length of the first report
          MaxLen     \* bound on the length of any report

ASSUME LengthAssumption == MaxSent \in Nat

VARIABLES type,      \* of the thing
          value,     \* as it was reported last
          stored     \* values of the assets it was merged into or created as

vars == <<type, value, stored>>

Values(n) == UNION {[1 .. m -> Chars] : m \in 1 .. n}

(* A blank value is an error of stage 1 (import_schema.py:56-60).          *)
Accepted(v) == Strip(v) # << >>

-----------------------------------------------------------------------------
(* The other spellings of a value, one change away: a blank before or      *)
(* behind, the case of a letter where it means nothing, the dot of the     *)
(* root behind a host name, another text of an address, blanks around the  *)
(* slash of a service.                                                     *)
FoldsCase(v) ==
    CASE type \in HostTypes \cup {"technology"} -> DOMAIN v
      [] type = "service" /\ Slashes(v) # {}    -> Min(Slashes(v)) .. Len(v)
      [] OTHER                                  -> {}

IsAddress(v) == type = "ip_address" /\ Strip(v) \in DOMAIN AddressOf
TextsOf(address) == {w \in DOMAIN AddressOf : AddressOf[w] = address}

Respellings(v) ==
    {<<Blank>> \o v, v \o <<Blank>>}
    \cup {[v EXCEPT ![i] = IF @ = "a" THEN "A" ELSE "a"]
          : i \in {j \in FoldsCase(v) : v[j] \in {"a", "A"}}}
    \cup (IF type \in HostTypes THEN {v \o <<".">>} ELSE {})
    \cup (IF IsAddress(v) THEN TextsOf(AddressOf[Strip(v)]) ELSE {})
    \cup (IF type = "service" /\ Slashes(v) # {}
          THEN {Before1st(v) \o b \o After1st(v) : b \in {<<Blank, "/">>, <<"/", Blank>>}} ELSE {})

-----------------------------------------------------------------------------
Init ==
    /\ type \in AssetTypes
    /\ value \in {v \in Values(MaxSent) : Accepted(v)}
    /\ stored = {Normalize(type, value)}

(* An import whose item spells the value as v.                             *)
Report(v) ==
    /\ Accepted(v) /\ Len(v) <= MaxLen
    /\ value' = v
    /\ stored' = stored \cup {Normalize(type, v)}
    /\ UNCHANGED type

(* A source spells it the same way or another way than the one before.     *)
Respell == \E v \in {value} \cup Respellings(value) : Report(v)
(* An export of the inventory is imported.                                 *)
Reimport == \E v \in stored : Report(v)

Next == Respell \/ Reimport

Spec == Init /\ [][Next]_vars

-----------------------------------------------------------------------------
(* A host name that _normalize left with a blank at its end, the one in    *)
(* front of the root's dots it took away: "a ." is stored as "a ", and the *)
(* import of an export, which strips that blank, knows it as "a".          *)
Loose(n) == type \in HostTypes /\ n # RStrip(n, {Blank})

(* What the spellings of one thing have in common.                         *)
Root(n) == IF type \in HostTypes THEN RStrip(n, {Blank, "."}) ELSE n

(* However its sources spell a thing, each in another way than the last,   *)
(* and whenever the inventory imports its own export, the thing stays one  *)
(* asset (README.md:77-78, tests/test_import.py:365), but for host names   *)
(* with a blank before the dots of the root: those are other assets of the *)
(* same root, and the only ones (import_pipeline.py:198-201).              *)
OneAsset ==
    \A m, n \in stored : Root(m) = Root(n) /\ (m = n \/ Loose(m) \/ Loose(n))

(* w is v without some blanks in front and some characters of drop behind. *)
Trimmed(v, w, drop) ==
    \E i \in 1 .. Len(v) + 1, j \in 0 .. Len(v) :
        /\ w = SubSeq(v, i, j)
        /\ \A k \in 1 .. i - 1 : v[k] = Blank
        /\ \A k \in j + 1 .. Len(v) : v[k] \in drop

(* And nothing else becomes that asset.  What is stored of an address is   *)
(* the same address; of anything else it is what was reported, without the *)
(* blanks at its ends or, in a service, around its slash, without the      *)
(* root's dots behind a host name (and blanks among them), and in lower    *)
(* case where case means nothing; before the slash of a service, in a      *)
(* certificate and in an address that does not parse, case is kept         *)
(* (import_pipeline.py:196-222).                                           *)
OnlySpellingIsLost ==
    \A n \in stored :
        CASE IsAddress(value) ->
                 n \in DOMAIN AddressOf /\ AddressOf[n] = AddressOf[Strip(value)]
          [] type = "service" /\ Slashes(value) # {} ->
                 /\ Slashes(n) # {}
                 /\ Trimmed(Before1st(value), Before1st(n), {Blank})
                 /\ Trimmed(Lower(After1st(value)), After1st(n), {Blank})
          [] OTHER ->
                 Trimmed(IF FoldsCase(value) = {} THEN value ELSE Lower(value), Root(n),
                         IF type \in HostTypes THEN {Blank, "."} ELSE {Blank})
=============================================================================
