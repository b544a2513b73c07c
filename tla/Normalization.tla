--------------------------- MODULE Normalization ---------------------------
(***************************************************************************)
(* The spelling under which an import stores the value of an asset         *)
(* (app/services/import_pipeline.py, _normalize, after the strip of        *)
(* app/schemas/import_schema.py).  A value is a sequence of characters, of *)
(* which only those are told apart that the code treats apart: blanks,     *)
(* dots, slashes, the colons and zeros that addresses are rewritten by, and*)
(* the two cases of a letter.  Module Respelling says what the importer    *)
(* relies on.                                                              *)
(***************************************************************************)
EXTENDS Naturals, Sequences, FiniteSetsExt

CONSTANTS AddressOf,   \* ipaddress.ip_address, of the texts it accepts
          TextOf       \* str of an address, its canonical form

AssetTypes ==
    {"domain", "subdomain", "ip_address", "service", "certificate", "technology"}
HostTypes == {"domain", "subdomain"}

Blank == " "
Chars == {Blank, ".", "/", ":", "0", "a", "A"}

(* No text with a blank is an address, and the canonical form of an address*)
(* is one of the texts that stand for it.                                  *)
ASSUME AddressAssumption ==
    \A v \in DOMAIN AddressOf :
        /\ v \in Seq(Chars) /\ \A i \in DOMAIN v : v[i] # Blank
        /\ TextOf[AddressOf[v]] \in DOMAIN AddressOf
        /\ AddressOf[TextOf[AddressOf[v]]] = AddressOf[v]

-----------------------------------------------------------------------------
(* str.strip, str.rstrip, str.lower and str.split("/", 1).                 *)

Kept(v, drop) == {i \in DOMAIN v : v[i] \notin drop}

RStrip(v, drop) == SubSeq(v, 1, Max(Kept(v, drop) \cup {0}))

Strip(v) ==
    LET w == RStrip(v, {Blank})
    IN  SubSeq(w, Min(Kept(w, {Blank}) \cup {Len(w) + 1}), Len(w))

Lower(v) == [i \in DOMAIN v |-> IF v[i] = "A" THEN "a" ELSE v[i]]

Slashes(v) == {i \in DOMAIN v : v[i] = "/"}
Before1st(v) == SubSeq(v, 1, Min(Slashes(v)) - 1)
After1st(v)  == SubSeq(v, Min(Slashes(v)) + 1, Len(v))

-----------------------------------------------------------------------------
(* Mutants: dots are stripped before blanks; every value is lowercased.    *)
DotsFirst(type, v) == IF type \in HostTypes THEN Lower(Strip(RStrip(v, {"."}))) ELSE Strip(v)
AllLower(type, v)  == IF type \in HostTypes THEN RStrip(Lower(Strip(v)), {"."}) ELSE Lower(Strip(v))

Normalize(type, v) ==
    LET s == Strip(v) IN
    CASE type \in HostTypes                                -> RStrip(Lower(s), {"."})
      [] type = "ip_address" /\ s \in DOMAIN AddressOf      -> TextOf[AddressOf[s]]
      [] type = "service" /\ Slashes(s) # {}               ->
             Strip(Before1st(s)) \o <<"/">> \o Lower(Strip(After1st(s)))
      [] type = "technology"                               -> Lower(s)
      [] OTHER                                             -> s

=============================================================================
