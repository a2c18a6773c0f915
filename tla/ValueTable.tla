------------------------------ MODULE ValueTable ------------------------------
(***************************************************************************)
(* What the bridge promises of its VALUEs: each is given a meaning once,   *)
(* keeps it until it is swept, and means nothing ever after; and what is   *)
(* answered for a string means that string, or once did.  FfiRegistry      *)
(* implements it.                                                          *)
(***************************************************************************)
CONSTANTS Values, Meanings, Nothing

VARIABLES objects,    \* what each VALUE stands for
          answered,   \* the answers there were, as <<string, VALUE>>
          swept       \* the VALUEs taken away

valueVars == <<objects, answered, swept>>

Fresh(v) == objects[v] = Nothing /\ v \notin swept /\ \A a \in answered : a[2] # v

Give(v, m) ==
  /\ Fresh(v)
  /\ objects' = [objects EXCEPT ![v] = m]
  /\ UNCHANGED <<answered, swept>>

Answer(v, m) ==
  /\ objects[v] = m \/ (v \in swept /\ \A a \in answered : a[2] = v => a[1] = m)
  /\ answered' = answered \cup {<<m, v>>}
  /\ UNCHANGED <<objects, swept>>

TakeAway(v) ==
  /\ objects[v] # Nothing
  /\ objects' = [objects EXCEPT ![v] = Nothing]
  /\ swept' = swept \cup {v}
  /\ UNCHANGED answered

ValueInit == objects = [v \in Values |-> Nothing] /\ answered = {} /\ swept = {}

ValueNext == \E v \in Values : TakeAway(v) \/ (\E m \in Meanings : Give(v, m) \/ Answer(v, m))

ValueSpec == ValueInit /\ [][ValueNext]_valueVars
=============================================================================
