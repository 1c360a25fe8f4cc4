------------------------------ MODULE SpanTree ------------------------------
(* The trace of a run, rebuilt from its journal (s17code/telemetry/spans.py). *)
(* An event is [kind, node, add, calls]; its place in the journal is its      *)
(* sequence number.  A metered call is [cost, at, latency]: at is 0 when the  *)
(* meter recorded no start, latency may come out negative.  The tree is a     *)
(* sequence of spans that name their parent by its place; the root is the     *)
(* first.                                                                     *)
EXTENDS Integers, Sequences, FiniteSets, SequencesExt, FiniteSetsExt, Functions, Sums

Ends == [task_succeeded |-> "succeeded", task_failed |-> "failed",
         task_cancelled |-> "cancelled"]

NoEnd == -1
NoNode == "none"

Span(kind, parent, node, start, end) ==
  [kind |-> kind, parent |-> parent, node |-> node, start |-> start, end |-> end,
   state |-> "none", cost |-> 0]

(* The journal orders its events and does not time them: the clock starts at  *)
(* the first start the meter recorded, or now, and ticks once an event.       *)
Clock(events, now, i) ==
  LET measured == UNION {{c.at : c \in ToSet(events[k].calls)} : k \in DOMAIN events} \ {0}
  IN (IF measured = {} THEN now ELSE Min(measured)) + i - 1

CallSpan(call, parent, node, t) ==
  LET start == IF call.at > 0 THEN call.at ELSE t
  IN [Span("provider_call", parent, node, start, start + call.latency)
        EXCEPT !.cost = call.cost]

(* What has been built when some events are read: the spans, the loop of each *)
(* node a patch added, the open span of each node that started.               *)
Fresh(t) == [spans |-> <<Span("run", 0, NoNode, t, NoEnd)>>, loopOf |-> <<>>, open |-> <<>>]

Loops(acc) == {i \in DOMAIN acc.spans : acc.spans[i].kind = "agent_loop"}

WithSpans(acc, spans) == [acc EXCEPT !.spans = @ \o spans]

(* current_loop: a run always has at least one.                               *)
WithLoop(acc, t) ==
  IF Loops(acc) # {} THEN acc ELSE WithSpans(acc, <<Span("agent_loop", 1, NoNode, t, NoEnd)>>)

WithNode(acc, node, t) ==
  LET looped == WithLoop(acc, t)
      parent == IF node \in DOMAIN acc.loopOf THEN acc.loopOf[node] ELSE Max(Loops(looped))
  IN WithSpans(looped, <<Span("node", parent, node, t, NoEnd)>>)

(* graph_patched: a new loop with its plan, and under the plan its calls.     *)
Patched(acc, e, t) ==
  LET loop == Len(acc.spans) + 1
      plan == loop + 1
  IN [WithSpans(acc, <<Span("agent_loop", 1, NoNode, t, NoEnd), Span("plan", loop, NoNode, t, t)>>
                       \o [k \in DOMAIN e.calls |-> CallSpan(e.calls[k], plan, NoNode, t)])
        EXCEPT !.loopOf = [n \in e.add \cup DOMAIN @ |-> IF n \in e.add THEN loop ELSE @[n]]]

Started(acc, e, t) ==
  LET grown == WithNode(acc, e.node, t)
  IN [grown EXCEPT !.open = [n \in DOMAIN @ \cup {e.node} |->
                               IF n = e.node THEN Len(grown.spans) ELSE @[n]]]

(* A terminal event closes the open span of its node, or a span of its own if *)
(* the node never ran, and hangs its calls under it.                          *)
Ended(acc, e, t) ==
  LET opened == IF e.node \in DOMAIN acc.open THEN acc ELSE WithNode(acc, e.node, t)
      at     == IF e.node \in DOMAIN acc.open THEN acc.open[e.node] ELSE Len(opened.spans)
      closed == [opened.spans[at] EXCEPT !.state = Ends[e.kind], !.end = t]
      calls  == [k \in DOMAIN e.calls |->
                   CallSpan([e.calls[k] EXCEPT !.latency = Max({@, 0})], at, e.node, t)]
  IN [spans  |-> [opened.spans EXCEPT ![at] = closed] \o calls,
      loopOf |-> opened.loopOf,
      open   |-> Restrict(opened.open, DOMAIN opened.open \ {e.node})]

Read(acc, e, t) ==
  CASE e.kind = "graph_patched" -> Patched(acc, e, t)
    [] e.kind = "task_started"  -> Started(acc, e, t)
    [] e.kind \in DOMAIN Ends   -> Ended(acc, e, t)
    [] OTHER                    -> acc

Unresolved(events, now) ==
  LET after[n \in 0..Len(events)] ==
        IF n = 0 THEN Fresh(Clock(events, now, 1))
        ELSE Read(after[n - 1], events[n], Clock(events, now, n))
  IN after[Len(events)].spans

(* Mutant of Resolved: a span that knows its end keeps it.                    *)
ResolvedKeepsEnd(spans, last) ==
  LET below(i) == {j \in DOMAIN spans : spans[j].parent = i}
      span[i \in DOMAIN spans] ==
        LET starts == {span[j].start : j \in below(i)} \cup {spans[i].start}
            own    == IF spans[i].end = NoEnd THEN {} ELSE {spans[i].end}
            ends   == IF own # {} THEN own ELSE {span[j].end : j \in below(i)}
            end    == IF ends = {} THEN last ELSE Max(ends)
        IN [spans[i] EXCEPT !.start = Min(starts), !.end = Max({end, Min(starts)})]
  IN span

(* resolve_times, from the leaves up: a parent covers its children, a span    *)
(* without an end takes the last of its children's or that of the journal.    *)
Resolved(spans, last) ==
  LET below(i) == {j \in DOMAIN spans : spans[j].parent = i}
      span[i \in DOMAIN spans] ==
        LET starts == {span[j].start : j \in below(i)} \cup {spans[i].start}
            own    == IF spans[i].end = NoEnd THEN {} ELSE {spans[i].end}
            ends   == own \cup {span[j].end : j \in below(i)}
            end    == IF ends = {} THEN last ELSE Max(ends)
        IN [spans[i] EXCEPT !.start = Min(starts), !.end = Max({end, Min(starts)})]
  IN span

BuildSpanTree(events, now) ==
  Resolved(Unresolved(events, now), Clock(events, now, IF events = <<>> THEN 1 ELSE Len(events)))

(* How much there is in all, of what there is of it in each.                 *)
Amount(seq, Of(_)) == Total(Len(seq), [i \in DOMAIN seq |-> Of(seq[i])])
One(this) == IF this THEN 1 ELSE 0

(* SpanExport.totals: what the exported spans add up to.                      *)
Totals(spans) ==
  [calls |-> Amount(spans, LAMBDA s : One(s.kind = "provider_call")),
   cost  |-> Amount(spans, LAMBDA s : IF s.kind = "provider_call" THEN s.cost ELSE 0)]
-----------------------------------------------------------------------------
(* What the journal holds of the meter, in its decisions and ends.           *)
Metered(events) ==
  LET in(e, amount) == IF e.kind \in DOMAIN Ends \cup {"graph_patched"} THEN amount ELSE 0
  IN [calls |-> Amount(events, LAMBDA e : in(e, Len(e.calls))),
      cost  |-> Amount(events, LAMBDA e : in(e, Amount(e.calls, LAMBDA c : c.cost)))]

(* Every span lies inside its parent and takes no negative time.              *)
SpansNest(spans) ==
  /\ \A i \in DOMAIN spans : spans[i].start <= spans[i].end
  /\ \A i \in DOMAIN spans \ {1} :
       LET parent == spans[spans[i].parent]
       IN parent.start <= spans[i].start /\ spans[i].end <= parent.end

(* How often the trace shows, and the journal has, an end of a node; how many *)
(* spans the node has, and how many starts.                                   *)
EndsShown(spans, n, kind) == Amount(spans, LAMBDA s : One(s.node = n /\ s.state = Ends[kind]))
EndsHad(events, n, kind) == Amount(events, LAMBDA e : One(e.node = n /\ e.kind = kind))
SpansShown(spans, n) == Amount(spans, LAMBDA s : One(s.node = n /\ s.kind = "node"))
StartsHad(events, n) == Amount(events, LAMBDA e : One(e.node = n /\ e.kind = "task_started"))

(* The spans nest; the trace shows each metered call of a decision or an end  *)
(* once and at its cost; each end is a span in its state, and no start is     *)
(* without a span of its own.                                                 *)
TraceStands(events, now) ==
  LET spans == BuildSpanTree(events, now)
  IN /\ SpansNest(spans)
     /\ Totals(spans) = Metered(events)
     /\ \A n \in {e.node : e \in ToSet(events)} \ {NoNode} :
          /\ \A kind \in DOMAIN Ends : EndsShown(spans, n, kind) = EndsHad(events, n, kind)
          /\ SpansShown(spans, n) >= StartsHad(events, n)
=============================================================================
