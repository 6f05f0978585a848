---------------------------- MODULE FiniteMaps -----------------------------
(***************************************************************************)
(* What Mire's maps promise: each is a finite function from texts to       *)
(* texts, whatever order its entries are kept in.                          *)
(***************************************************************************)
EXTENDS Functions

CONSTANTS
  Maps,    \* the program's maps
  Keys,    \* texts used as keys
  Values   \* texts used as values

VARIABLE contents  \* the function each map is

Init == contents = [m \in Maps |-> << >>]

\* The right function's entries win.
Over(f, g) == [k \in DOMAIN f \cup DOMAIN g |-> IF k \in DOMAIN g THEN g[k] ELSE f[k]]

Put(f, k, v) == Over(f, [x \in {k} |-> v])

\* What one call may make of map m: a value is set; an entry is
\* removed; a map is merged in; the map is freed.
Outcomes(maps, m) ==
       {Put(maps[m], k, v) : k \in Keys, v \in Values}
  \cup {Restrict(maps[m], DOMAIN maps[m] \ {k}) : k \in Keys}
  \cup {Over(maps[m], maps[from]) : from \in Maps}
  \cup {<< >>}

Next ==
  \E maps \in {contents} :
    contents' \in UNION {{[maps EXCEPT ![m] = f] : f \in Outcomes(maps, m)} : m \in Maps}

Spec == Init /\ [][Next]_contents
=============================================================================
