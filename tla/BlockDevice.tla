----------------------------- MODULE BlockDevice -----------------------------
(***************************************************************************)
(* What devices/ide.c promises to the block layer: any thread may read and *)
(* write sectors at any time, and each call takes effect at one moment     *)
(* between its start and its return.                                       *)
(***************************************************************************)
CONSTANTS Thread, Sector, Data, NULL

VARIABLES
  content, \* what each sector holds
  request, \* the call of each thread that has not taken effect yet, or NULL
  active,  \* threads in a call
  buffer   \* what each thread last read

vars == <<content, request, active, buffer>>

Request ==
  [op : {"read"}, sec : Sector] \cup [op : {"write"}, sec : Sector, data : Data]

Init ==
  /\ content \in [Sector -> Data]
  /\ request = [t \in Thread |-> NULL]
  /\ active = {}
  /\ buffer \in [Thread -> Data]

Begin(t) ==
  /\ t \notin active
  /\ active' = active \cup {t}
  /\ \E r \in Request : request' = [request EXCEPT ![t] = r]
  /\ UNCHANGED <<content, buffer>>

Serve(t) ==
  LET r == request[t] IN
  /\ r # NULL
  /\ request' = [request EXCEPT ![t] = NULL]
  /\ IF r.op = "read"
     THEN buffer' = [buffer EXCEPT ![t] = content[r.sec]] /\ UNCHANGED content
     ELSE content' = [content EXCEPT ![r.sec] = r.data] /\ UNCHANGED buffer
  /\ UNCHANGED active

End(t) ==
  /\ t \in active /\ request[t] = NULL
  /\ active' = active \ {t}
  /\ UNCHANGED <<content, request, buffer>>

Next == \E t \in Thread : Begin(t) \/ Serve(t) \/ End(t)

Spec == Init /\ [][Next]_vars
=============================================================================
