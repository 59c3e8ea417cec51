--------------------------- MODULE CuratorInterest ---------------------------
(***************************************************************************)
(* Registering as a prospective curator: the form                           *)
(* (frontend/src/app/curators/CuratorInterestForm.tsx), its endpoint        *)
(* (app/api/curators/interest/route.ts) and the cleanup of the admission    *)
(* gates (app/api/internal/curator-rate-cleanup/route.ts).  Any request to  *)
(* the blob store or the endpoint may fail; a form's contents are valid or  *)
(* not.                                                                     *)
(***************************************************************************)
EXTENDS Integers, FiniteSets

CONSTANTS Forms, SourceOf,      \* open forms, and the network address each comes from
          Retain,               \* RETAIN_MS, in slots of SOURCE_SLOT_MS
          MaxSlot, MaxTries     \* bounds: the clock, submissions of a form

VARIABLES slot,      \* sourceSlot now
          gates,     \* blobs curators-rate/source/..: of whom, and of which slot
          stored,    \* blobs curators/..: the form, and which of its submissions
          form,      \* what each form shows
          post,      \* the request of each form
          answered   \* history: submissions answered 200, with source and slot

interestVars == <<slot, gates, stored, form, post, answered>>

NoPost == [pc |-> "none", try |-> 0, gate |-> [source |-> "none", slot |-> 0]]

InterestInit ==
    /\ slot = 0 /\ gates = {} /\ stored = {} /\ answered = {}
    /\ form = [f \in Forms |-> [shows |-> "form", tries |-> 0]]
    /\ post = [f \in Forms |-> NoPost]

Shows(f, what) == form' = [form EXCEPT ![f].shows = what]
At(f, pc) == post[f].pc = pc
Ends(f) == post' = [post EXCEPT ![f] = NoPost]

\* submit, while the button is not busy; a registered form is gone.
Submit(f) ==
    /\ At(f, "none") /\ form[f].shows # "done" /\ form[f].tries < MaxTries
    /\ form' = [form EXCEPT ![f] = [shows |-> "busy", tries |-> @.tries + 1]]
    /\ post' = [post EXCEPT ![f] = [NoPost EXCEPT !.pc = "sent", !.try = form[f].tries + 1]]
    /\ UNCHANGED <<slot, gates, stored, answered>>

GateOf(f) == [source |-> SourceOf[f], slot |-> slot]

\* The endpoint cannot be reached, is not configured or refuses the contents, or the gate's
\* write fails: a gate whose reply is lost stays, for nothing releases it.
Refused(f) ==
    /\ At(f, "sent") /\ Ends(f) /\ Shows(f, "error")
    /\ gates' \in {gates, gates \union {GateOf(f)}}
    /\ UNCHANGED <<slot, stored, answered>>

\* admit: one conditional write per source and slot; a conflict answers 429.
Admit(f) ==
    /\ At(f, "sent")
    /\ IF GateOf(f) \in gates THEN Ends(f) /\ Shows(f, "error") /\ UNCHANGED gates
       ELSE /\ gates' = gates \union {GateOf(f)} /\ UNCHANGED form
            /\ post' = [post EXCEPT ![f].pc = "admitted", ![f].gate = GateOf(f)]
    /\ UNCHANGED <<slot, stored, answered>>

Store(f) ==
    /\ At(f, "admitted") /\ stored' = stored \union {[form |-> f, try |-> post[f].try]}
    /\ post' = [post EXCEPT ![f].pc = "stored"]
    /\ UNCHANGED <<slot, gates, form, answered>>

\* The record is not stored, or the store's reply is lost.
StoreFails(f) ==
    /\ At(f, "admitted") /\ post' = [post EXCEPT ![f].pc = "releasing"]
    /\ stored' \in {stored, stored \union {[form |-> f, try |-> post[f].try]}}
    /\ UNCHANGED <<slot, gates, form, answered>>

\* The gate is released so that the failure does not block a retry; that may fail too.
Release(f) ==
    /\ At(f, "releasing") /\ Ends(f) /\ Shows(f, "error")
    /\ gates' \in {gates, gates \ {post[f].gate}}
    /\ UNCHANGED <<slot, stored, answered>>

\* 200; the form may not hear of it.
Answer(f) ==
    /\ At(f, "stored") /\ Ends(f)
    /\ answered' = answered \union {[form |-> f, try |-> post[f].try, gate |-> post[f].gate]}
    /\ \E heard \in {"done", "error"} : Shows(f, heard)
    /\ UNCHANGED <<slot, gates, stored>>

Passes == slot < MaxSlot /\ slot' = slot + 1 /\ UNCHANGED <<gates, stored, form, post, answered>>

\* The cron job deletes page by page what was uploaded longer ago, and may stop in between.
Cleanup ==
    /\ \E old \in SUBSET {g \in gates : g.slot < slot - Retain} \ {{}} : gates' = gates \ old
    /\ UNCHANGED <<slot, stored, form, post, answered>>

InterestNext ==
    \/ \E f \in Forms : \/ Submit(f) \/ Refused(f) \/ Admit(f) \/ Store(f)
                        \/ StoreFails(f) \/ Release(f) \/ Answer(f)
    \/ Passes \/ Cleanup

InterestSpec == InterestInit /\ [][InterestNext]_interestVars

(* ------------------------------ properties ------------------------------ *)

\* "A real registration must never receive success without durable storage", and of one source
\* at most one registration is accepted per slot, whatever failed, was released or cleaned up.
RegisteredOnce ==
    /\ \A f \in Forms : form[f].shows = "done" => \E r \in stored : r.form = f
    /\ \A a \in answered : [form |-> a.form, try |-> a.try] \in stored
    /\ \A a, b \in answered : a.gate = b.gate => a = b
=============================================================================
