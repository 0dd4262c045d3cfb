-------------------------------- MODULE Cloud --------------------------------
(***************************************************************************)
(* The vocabulary of the provisioning tools.  They are all built the same  *)
(* way: read listings of the live cloud, compare them with the manifest    *)
(* into findings (rows of a kind and a status), then issue calls in a      *)
(* fixed order, most of them only for a row that is not OK.  A tool's      *)
(* module holds its rows and its calls; Provisioning runs them.            *)
(*                                                                         *)
(* A resource is absent; pending: it exists, but a long-running operation  *)
(* or a propagation is not through; wrong: configured otherwise than the   *)
(* manifest says; odd: wrong in a way that the calls add to or pass over   *)
(* instead of correcting; keyless: an app without a credential, through    *)
(* which alone it is corrected and used; or ok.  Resources of one sort     *)
(* that the code treats alike (the subnets, the three services, the        *)
(* agents' accounts) are one.                                              *)
(***************************************************************************)
EXTENDS Naturals, Sequences

Status == {"absent", "pending", "wrong", "odd", "keyless", "ok"}

\* A row about the resource lead: OK when lead and `also` are ok, or off in a way that
\* does not count (lenient); `gone` when there is no lead.  `unread` gives its status
\* when a listing cannot be read, `under` when another resource is absent or has no key,
\* `awaiting` when another one is pending.
Row(kind, lead) ==
  [kind |-> kind, lead |-> lead, also |-> {}, gone |-> "missing",
   lenient |-> {}, unread |-> <<>>, under |-> <<>>, awaiting |-> <<>>]

With(also, row) == [row EXCEPT !.also = also]
Lenient(status, row) == [row EXCEPT !.lenient = {<<row.lead, status>>}]
Gone(status, row) == [row EXCEPT !.gone = status]
Unread(statuses, row) == [row EXCEPT !.unread = statuses]
Under(statuses, row) == [row EXCEPT !.under = statuses]
Awaiting(statuses, row) == [row EXCEPT !.awaiting = statuses]

RowStatus(row, live, unread) ==
  LET blind == unread \cap DOMAIN row.unread
      without == {r \in DOMAIN row.under : live[r] \in {"absent", "keyless"}}
      early == {r \in DOMAIN row.awaiting : live[r] = "pending"}
      off == {r \in {row.lead} \cup row.also :
                live[r] # "ok" /\ <<r, live[r]>> \notin row.lenient}
  IN IF blind # {} THEN row.unread[CHOOSE l \in blind : TRUE]
     ELSE IF without # {} THEN row.under[CHOOSE r \in without : TRUE]
     ELSE IF early # {} THEN row.awaiting[CHOOSE r \in early : TRUE]
     ELSE IF off = {} THEN "OK"
     ELSE IF live[row.lead] = "absent" THEN row.gone ELSE "drift"

Findings(rows, live, unread) ==
  {f \in {<<row.kind, RowStatus(row, live, unread)>> : row \in rows} : f[2] # "OK"}

\* A call that makes resources, for a finding of one of the kinds (always, if there are
\* none), and fails without the resources it needs, or while one is no use.  What it
\* makes `within` another resource is a part of that one.  A hard failure ends the run.
Call(makes, kinds, needs) ==
  [makes |-> makes, kinds |-> kinds, needs |-> needs, within |-> {},
   for |-> {"missing", "drift"}, how |-> "create", hard |-> FALSE, late |-> FALSE,
   unless |-> {}, spoils |-> {}]

How(how, call) == [call EXCEPT !.how = how]
Set(call) == How("set", call)
Hard(call) == [call EXCEPT !.hard = TRUE]
Late(call) == [call EXCEPT !.late = TRUE]
For(status, call) == [call EXCEPT !.for = {status}]
Unless(listing, call) == [call EXCEPT !.unless = {listing}]
Within(resources, call) == [call EXCEPT !.within = resources]
Spoils(resources, call) == [call EXCEPT !.spoils = resources]

Triggered(call, findings, unread) ==
  /\ call.kinds # {} => \E f \in findings : f[1] \in call.kinds /\ f[2] \in call.for
  /\ call.unless \cap unread = {}

Possible(call, live) ==
  /\ \A r \in call.needs : live[r] \notin {"absent", "pending", "keyless"}
  /\ \A r \in call.within : live[r] # "absent"

\* What a resource becomes.  A create of what exists fails, and no tool minds.
Becomes(how, status) ==
  CASE how = "create" -> IF status = "absent" THEN "ok" ELSE status
    [] how = "update" -> IF status = "wrong" THEN "ok" ELSE status
    [] how = "set"    -> IF status \in {"odd", "keyless"} THEN status ELSE "ok"
    [] how = "add"    -> IF status = "absent" THEN "ok" ELSE "odd"
    [] how = "drop"   -> "absent"

\* What refers to a resource that is replaced refers to the old one.
Replaces(call, live) == call.how # "create" \/ \E r \in call.makes : live[r] = "absent"

\* The cloud after a call, and after one whose operation is not through yet.
After(call, live) ==
  [r \in DOMAIN live |->
     IF r \in call.makes THEN Becomes(call.how, live[r])
     ELSE IF r \in call.spoils /\ live[r] # "absent" /\ Replaces(call, live) THEN "wrong"
     ELSE live[r]]

AfterLate(call, live) ==
  [r \in DOMAIN live |->
     IF r \in call.makes /\ After(call, live)[r] # live[r] THEN "pending"
     ELSE After(call, live)[r]]
=============================================================================
