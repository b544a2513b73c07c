---------------------------- MODULE MCRespelling ----------------------------
(***************************************************************************)
(* A small instance of Respelling: the addresses that can be written in    *)
(* MaxLen characters, as Python's ipaddress reads and writes them.  With   *)
(* MaxLen <= 6 those are the IPv6 addresses whose groups "::" shortens: an *)
(* IPv4 address takes seven characters, an address without "::" fifteen.   *)
(***************************************************************************)
EXTENDS Respelling, SequencesExt

(* A group is written in one to four hexadecimal digits.                   *)
Groups == UNION {[1 .. n -> {"0", "a", "A"}] : n \in 1 .. 4}

Joined(groups) ==
    IF groups = << >> THEN << >>
    ELSE FoldLeft(LAMBDA v, g : v \o <<":">> \o g, Head(groups), Tail(groups))

(* What may stand in front of "::" and behind it, with its groups.         *)
Lists == {<< >>} \cup {<<g>> : g \in {h \in Groups : Len(h) <= MaxLen - 2}}
         \cup {l \in Groups \X Groups : Len(l[1]) + 1 + Len(l[2]) <= MaxLen - 2}
Sides == [v \in {Joined(l) : l \in Lists} |-> CHOOSE l \in Lists : Joined(l) = v]

(* An address is its eight groups, without leading zeros and in lower case.*)
Number(g) ==
    Lower(SubSeq(g, Min({k \in DOMAIN g : g[k] # "0"} \cup {Len(g)}), Len(g)))
Zero == <<"0">>
Address(hi, lo) ==
    [i \in 1 .. 8 |-> IF i <= Len(hi) THEN Number(hi[i])
                     ELSE IF i > 8 - Len(lo) THEN Number(lo[i - (8 - Len(lo))])
                     ELSE Zero]

Texts ==
    {p[1] \o <<":", ":">> \o p[2]
     : p \in {q \in (DOMAIN Sides) \X (DOMAIN Sides) : Len(q[1]) + 2 + Len(q[2]) <= MaxLen}}
Addresses ==
    [v \in Texts |->
        LET i == CHOOSE k \in 1 .. Len(v) - 1 : v[k] = ":" /\ v[k + 1] = ":"
        IN  Address(Sides[SubSeq(v, 1, i - 1)], Sides[SubSeq(v, i + 2, Len(v))])]

(* "::" stands for the first of the longest runs of zero groups; here every*)
(* address has one of at least two.                                        *)
Canonical ==
    [a \in Range(Addresses) |->
        LET Runs == {r \in (1 .. 8) \X (1 .. 8) : \A i \in r[1] .. r[2] : a[i] = Zero}
            Size(r) == r[2] - r[1]
            run == CHOOSE r \in Runs : \A q \in Runs :
                       Size(q) < Size(r) \/ (Size(q) = Size(r) /\ r[1] <= q[1])
        IN  Joined(SubSeq(a, 1, run[1] - 1)) \o <<":", ":">> \o Joined(SubSeq(a, run[2] + 1, 8))]
=============================================================================
