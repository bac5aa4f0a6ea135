---------------------------- MODULE EditorSession ----------------------------
(***************************************************************************)
(* The entry editor of one browser, the network and the entry store:       *)
(* static/js/10-transfer.js (submit), 23-editor-draft.js (drafts),         *)
(* 14-history.js (editEntry) over the transactions of EntryStore.          *)
(*                                                                         *)
(* A request may never arrive, its answer may be lost, and a request whose *)
(* answer the browser gave up waiting for (30 seconds, or the form was     *)
(* closed) may still be executed later.  The editor keeps the unanswered   *)
(* write - key, payload and the form it was made from - as `pending', in   *)
(* the form and in the draft in localStorage, and sends the same write     *)
(* again instead of making a new one.                                      *)
(*                                                                         *)
(* An intent is a history notion: one record the user set out to write by  *)
(* opening an empty form.  A draft belongs to the intent it was typed for. *)
(***************************************************************************)
EXTENDS EntryStore

CONSTANTS
    Empty,          \* the content of a form nothing was typed into
    New,            \* the form, or the draft slot, of a record without id
    None,           \* no form, nothing pending, no draft, no request, no answer
    Worlds          \* what may happen in one behaviour, a set of World

(* ids, texts: what is written; stored: the ids stored at first; ends: the *)
(* login may end (expiry, epoch) at any time; others: other devices and    *)
(* bots change the table, too; intents, late: bounds on the records the    *)
(* user sets out to write and on the requests nobody waits for.            *)
World == [ids : SUBSET Ids, stored : SUBSET Ids, texts : SUBSET Texts,
          ends : BOOLEAN, others : BOOLEAN, intents : Nat, late : Nat]

Slots == Ids \cup {New}
Typed == Texts \cup {Empty}

Form   == [id : Slots, rev : Nat, base : Row \cup {NoRow},
           text : Typed, orig : Typed, intent : Nat]
Write  == [key : Keys, slot : Slots, snapshot : [id : Slots, rev : Nat, text : Typed],
           body : Content, base : Row \cup {NoRow}, intent : Nat]
Draft  == [text : Typed, pending : Write \cup {None}, intent : Nat]
Sent   == [key : Keys, body : Content, base : Row \cup {NoRow}, intent : Nat, force : BOOLEAN]
Nothing == [id |-> 0, rev |-> 0]
Answer == [kind : {"ok", "refused", "confirm"}, result : Result \cup {Nothing}]

ASSUME EditorAssumption ==
    /\ New \notin Ids
    /\ Empty \notin Texts
    /\ Worlds \subseteq World
    /\ None \notin Form /\ None \notin Write /\ None \notin Draft
    /\ None \notin Sent /\ None \notin Answer

VARIABLES
    form,       \* the open form, or None
    pending,    \* window.editorPendingWrite
    waiting,    \* the write whose answer submit awaits (its local constant)
    offered,    \* editorDraftOffered: the stored draft on offer
    draft,      \* localStorage, one slot per entry id and one for New
    request,    \* the awaited request, on its way to the server
    answer,     \* its answer, on its way to the browser
    late,       \* requests nobody waits for any more, not executed so far
    used,       \* keys the browser has drawn
    session,    \* the session cookie is valid
    intents,    \* history: intents begun so far
    made,       \* history: records created for an intent
    dropped,    \* history: intents whose key a refusal made the editor drop
    world       \* never changes

formVars == <<form, pending, offered, draft, used, intents>>
wireVars == <<waiting, request, answer, late>>
history == <<made, dropped>>
allVars == <<vars, formVars, wireVars, session, history, world>>

-----------------------------------------------------------------------------
(* saveEditorDraft with the form f and pending write p: nothing while a    *)
(* draft is on offer; an untouched form without pending write has none.    *)
DraftOf(f, p) == [text |-> f.text, pending |-> p, intent |-> f.intent]
SaveDraft(f, p) ==
    draft' = IF offered # None THEN draft
             ELSE [draft EXCEPT ![f.id] =
                     IF f.text = f.orig /\ p = None THEN None ELSE DraftOf(f, p)]

(* Opening the form for a new record, or for row i as fetched by editEntry. *)
OpenNew ==
    /\ form = None
    /\ intents < world.intents
    /\ intents' = intents + 1
    /\ form' = [id |-> New, rev |-> NoRev, base |-> NoRow,
                text |-> Empty, orig |-> Empty, intent |-> intents + 1]
    /\ offered' = draft[New]
    /\ UNCHANGED <<vars, pending, draft, used, wireVars, session, history>>

OpenEdit(i) ==
    /\ form = None
    /\ session
    /\ entries[i] # NoRow
    /\ form' = [id |-> i, rev |-> entries[i].rev, base |-> entries[i],
                text |-> entries[i].text, orig |-> entries[i].text, intent |-> 0]
    /\ offered' = draft[i]
    /\ UNCHANGED <<vars, pending, draft, used, intents, wireVars, session, history>>

Type(t) ==
    /\ form # None
    /\ form.text # t
    /\ form' = [form EXCEPT !.text = t]
    /\ UNCHANGED <<vars, pending, offered, draft, used, intents, wireVars,
                   session, history>>

(* The 500 ms timer, pagehide and visibilitychange.                        *)
AutoSaveDraft ==
    /\ form # None
    /\ SaveDraft(form, pending)
    /\ UNCHANGED <<vars, form, pending, offered, used, intents, wireVars,
                   session, history>>

(* btnRestoreDraft: the unanswered write comes back with the draft, if it  *)
(* was made for the record the form is about.                              *)
RestoreDraft ==
    /\ form # None
    /\ offered # None
    /\ form' = [form EXCEPT !.text = offered.text, !.intent = offered.intent]
    /\ pending' = IF offered.pending # None /\ offered.pending.slot = form.id
                    THEN offered.pending ELSE pending
    /\ offered' = None
    /\ UNCHANGED <<vars, draft, used, intents, wireVars, session, history>>

DiscardDraft ==
    /\ form # None
    /\ offered # None
    /\ offered' = None
    /\ draft' = [draft EXCEPT ![form.id] = None]
    /\ UNCHANGED <<vars, form, pending, used, intents, wireVars, session, history>>

(* editorDraftSnapshot: also the revision the form was opened with.        *)
Snapshot(f) == [id |-> f.id, rev |-> f.rev, text |-> f.text]

(* A write made from the form.  A new record proposes an id taken from the *)
(* clock.                                                                  *)
NewWrites ==
    {[key |-> k, slot |-> form.id, snapshot |-> Snapshot(form),
      body |-> [op |-> IF form.id = New THEN "create" ELSE "update",
                id |-> i, rev |-> form.rev, text |-> form.text],
      base |-> form.base, intent |-> form.intent] :
        k \in Keys \ used, i \in IF form.id = New THEN world.ids ELSE {form.id}}

Message(p, force) == [key |-> p.key, body |-> p.body, base |-> p.base,
                      intent |-> p.intent, force |-> force]

(* The write a submit sends: the unanswered one if there is one.           *)
Submit ==
    /\ form # None
    /\ form.text # Empty
    /\ waiting = None
    /\ \E p \in IF pending # None THEN {pending} ELSE NewWrites :
          /\ pending' = p
          /\ waiting' = p
          /\ used' = used \cup {p.key}
          /\ request' = Message(p, FALSE)
          /\ SaveDraft(form, p)
    /\ UNCHANGED <<vars, form, offered, intents, answer, late, session, history>>

(* Nobody waits any more; a request that is still on its way stays there,  *)
(* an answer is lost.                                                      *)
Abandon ==
    /\ waiting' = None /\ request' = None /\ answer' = None
    /\ late' = late \cup ({request} \ {None})
    /\ Cardinality(late') <= world.late

(* Mutant: giving up forgets the write.                                    *)
GiveUpForgetting ==
    /\ waiting # None
    /\ Abandon
    /\ pending' = None
    /\ SaveDraft(form, None)
    /\ UNCHANGED <<vars, form, offered, used, intents, session, history>>

(* The catch branch of submit: 30 seconds, no connection.                  *)
GiveUpWaiting ==
    /\ waiting # None
    /\ Abandon
    /\ SaveDraft(form, pending)
    /\ UNCHANGED <<vars, form, pending, offered, used, intents, session, history>>

(* resetAndCloseForm without a save: the draft is saved, the wait aborted. *)
Close ==
    /\ form # None
    /\ SaveDraft(form, pending)
    /\ Abandon
    /\ form' = None /\ pending' = None /\ offered' = None
    /\ UNCHANGED <<vars, used, intents, session, history>>

(* The tab is killed.  (A reload fires pagehide: AutoSaveDraft first.)     *)
Kill ==
    /\ form # None
    /\ Abandon
    /\ form' = None /\ pending' = None /\ offered' = None
    /\ UNCHANGED <<vars, draft, used, intents, session, history>>

-----------------------------------------------------------------------------
(* The server.  Every outcome has an answer; whether anybody waits for it  *)
(* is for ServeAwaited and ServeLate to say.                               *)

Answers == [kind : {"refused", "confirm"}, result : {Nothing}]

(* check_login answers 401 before the route runs.                          *)
Unauthorized(reply) ==
    /\ ~session
    /\ reply.kind = "refused"
    /\ UNCHANGED <<vars, made>>

Accept(m) ==
    /\ session
    /\ Save(m)
    /\ made' = IF m.body.op = "create" /\ Fresh(m)
                 THEN [made EXCEPT ![m.intent] = @ + 1] ELSE made

Decline(m, reply) ==
    /\ session
    /\ \E why \in Refusals :
          /\ Refused(m, why)
          /\ m.force => why # "confirm"
          /\ reply.kind = IF why = "confirm" THEN "confirm" ELSE "refused"
    /\ UNCHANGED <<vars, made>>

ServeAwaited ==
    /\ request # None
    /\ \/ /\ Accept(request)
          /\ answer' = [kind |-> "ok", result |-> receipts'[request.key].result]
       \/ \E reply \in Answers :
             /\ Unauthorized(reply) \/ Decline(request, reply)
             /\ answer' = reply
    /\ request' = None
    /\ UNCHANGED <<formVars, waiting, late, session, dropped>>

ServeLate(m) ==
    /\ \/ Accept(m)
       \/ \E reply \in Answers : Unauthorized(reply) \/ Decline(m, reply)
    /\ late' = late \ {m}
    /\ UNCHANGED <<formVars, waiting, request, answer, session, dropped>>

-----------------------------------------------------------------------------
(* The answer reaches the form that waits for it.                          *)

(* The version of a row the answer speaks of (history only).               *)
Version(res) ==
    (CHOOSE v \in seen : v.id = res.id /\ v.row.rev = res.rev).row

(* Saved: the draft goes; a form that was typed in meanwhile becomes the   *)
(* editor of the stored record.                                            *)
Saved ==
    /\ answer.kind = "ok"
    /\ pending' = None
    /\ waiting' = None
    /\ LET gone == [draft EXCEPT ![form.id] = None]
           next == [form EXCEPT !.id = answer.result.id, !.rev = answer.result.rev,
                                !.base = Version(answer.result), !.intent = 0]
       IN  IF Snapshot(form) = waiting.snapshot
             THEN /\ form' = None
                  /\ offered' = None
                  /\ draft' = gone
             ELSE /\ form' = next
                  /\ offered' = offered
                  /\ draft' = IF offered # None THEN gone
                              ELSE [gone EXCEPT ![next.id] = DraftOf(next, None)]
    /\ UNCHANGED <<request, dropped>>

(* Any other answer below 500: the write is over, its key is dropped.  A   *)
(* requiresConfirm the user cancels ends the same way.                     *)
Failed ==
    /\ answer.kind # "ok"
    /\ pending' = None
    /\ waiting' = None
    /\ SaveDraft(form, None)
    /\ dropped' = dropped \cup {p.intent : p \in {pending} \ {None}}
    /\ UNCHANGED <<form, offered, request>>

(* requiresConfirm: the user may proceed, and the same write goes out with *)
(* force=1.                                                                *)
Proceed ==
    /\ answer.kind = "confirm"
    /\ request' = Message(waiting, TRUE)
    /\ UNCHANGED <<form, pending, waiting, offered, draft, dropped>>

Receive ==
    /\ answer # None
    /\ answer' = None
    /\ Saved \/ Failed \/ Proceed
    /\ UNCHANGED <<vars, used, intents, late, session, made>>

-----------------------------------------------------------------------------
EndSession ==
    /\ world.ends
    /\ session
    /\ session' = FALSE
    /\ UNCHANGED <<vars, formVars, wireVars, history>>

Login ==
    /\ ~session
    /\ session' = TRUE
    /\ UNCHANGED <<vars, formVars, wireVars, history>>

(* Another device or a bot; what else may happen to a row (a restore, a    *)
(* review) is, for this editor, one of these.                              *)
Elsewhere ==
    /\ world.others
    /\ \/ \E i \in Ids : Delete(i, NoRev)
       \/ \E i \in Ids, t \in world.texts :
             Update([key |-> NoKey, body |-> [op |-> "update", id |-> i,
                                              rev |-> NoRev, text |-> t]])
       \/ BotInsert
    /\ Live(entries') \subseteq world.ids
    /\ UNCHANGED <<formVars, wireVars, session, history>>

SessionInit ==
    /\ Init
    /\ world \in Worlds
    /\ Live(entries) = world.stored
    /\ form = None /\ pending = None /\ waiting = None /\ offered = None
    /\ draft = [s \in Slots |-> None]
    /\ request = None /\ answer = None /\ late = {}
    /\ used = {}
    /\ session = TRUE
    /\ intents = 0
    /\ made = [n \in 1..world.intents |-> 0]
    /\ dropped = {}

Step ==
    \/ OpenNew \/ \E i \in Ids : OpenEdit(i)
    \/ \E t \in world.texts : Type(t)
    \/ AutoSaveDraft \/ RestoreDraft \/ DiscardDraft
    \/ Submit \/ GiveUpWaiting \/ Close \/ Kill
    \/ ServeAwaited \/ \E m \in late : ServeLate(m)
    \/ Receive
    \/ EndSession \/ Login
    \/ Elsewhere

SessionNext == Step /\ UNCHANGED world

SessionSpec == SessionInit /\ [][SessionNext]_allVars

-----------------------------------------------------------------------------
Requests == late \cup ({request} \ {None})

(* What the browser remembers, what is on the wire, and the histories.     *)
SessionTypeOK ==
    /\ TypeOK
    /\ form \in Form \cup {None} /\ offered \in Draft \cup {None}
    /\ {pending, waiting} \subseteq Write \cup {None}
    /\ draft \in [Slots -> Draft \cup {None}]
    /\ request \in Sent \cup {None} /\ late \subseteq Sent
    /\ answer \in Answer \cup {None}
    /\ world \in World /\ intents \in 0 .. world.intents
    /\ made \in [1 .. world.intents -> Nat]

(* Whenever the server would execute an update of this editor - the row    *)
(* exists and has the revision the request carries - the row is exactly    *)
(* what the user saw when the write was prepared (entries.update: the      *)
(* StaleEntry check), also for requests that arrive after the form that    *)
(* sent them was closed, reopened or became the editor of a new record.    *)
NoLostUpdate ==
    \A m \in Requests :
        (m.body.op = "update" /\ entries[m.body.id] # NoRow
           /\ entries[m.body.id].rev = m.body.rev)
          => entries[m.body.id] = m.base

(* README.en.md: "Retrying an uncertain save, including after restoring a  *)
(* local draft, reuses the request key instead of creating a duplicate."   *)
OneRecordPerIntent == \A n \in DOMAIN made : made[n] <= 1

(* The only way to a duplicate is a refusal after which the editor drops   *)
(* the key of a write that may have been executed: lost requests, lost     *)
(* answers, closed forms, killed tabs and restored drafts never lead to    *)
(* one (editorPendingWrite in 10-transfer.js and 23-editor-draft.js).      *)
DuplicatesOnlyAfterRefusal ==
    \A n \in DOMAIN made \ dropped : made[n] <= 1

=============================================================================
