------------------------------ MODULE Rewrites ------------------------------
(***************************************************************************)
(* How the runner tells APISIX what the plugins changed: the differences   *)
(* FetchChanges puts on the wire (internal/http/request.go, response.go)   *)
(* and what APISIX makes of them (external).                               *)
(*                                                                         *)
(* A header or argument map gives each name the sequence of its values,    *)
(* the empty one when the name is not in the map.  A difference gives a    *)
(* value sequence to the names it mentions; an entry without a value is    *)
(* the empty sequence.  Go iterates over maps in any order, but no name is *)
(* mentioned twice.                                                        *)
(***************************************************************************)
EXTENDS Naturals, Sequences

CONSTANTS
  Names,   \* header names (canonical) and argument names
  Values

Maps == [Names -> Seq(Values)]

Present(m, n) == m[n] # <<>>

\* The names whose first value, the one Header.Get returns, differs.
FirstDiffers(old, new) ==
  {n \in Names :
     \/ Present(old, n) /\ ~Present(new, n)
     \/ /\ Present(new, n)
        /\ ~Present(old, n) \/ Head(old[n]) # Head(new[n])}

\* Mutant: headers that a plugin deleted are not mentioned.
HeaderChangesNoDeletion(old, new) ==
  [n \in {m \in FirstDiffers(old, new) : Present(new, m)} |-> <<Head(new[n])>>]

\* Headers: deleted ones without a value, and of the others the first value,
\* if that is new.
HeaderChanges(old, new) ==
  [n \in FirstDiffers(old, new) |-> IF Present(new, n) THEN <<Head(new[n])>> ELSE <<>>]

\* Arguments: all values of a name, if any of them is new.
ArgsChanges(old, new) == [n \in {m \in Names : old[m] # new[m]} |-> new[n]]

\* APISIX replaces what the difference mentions and keeps the rest.
Apply(m, changes) == [n \in Names |-> IF n \in DOMAIN changes THEN changes[n] ELSE m[n]]
=============================================================================
