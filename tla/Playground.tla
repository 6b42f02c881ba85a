----------------------------- MODULE Playground -----------------------------
(***************************************************************************)
(* The chat playground of the web client: one browser tab in which a user  *)
(* sends prompts, stops and regenerates answers, edits and deletes         *)
(* messages, leaves and comes back, while answers arrive as a stream of    *)
(* chunks or as one reply and the conversation is saved per account.       *)
(*                                                                         *)
(* A step is one task of the browser's event loop.  State updates made by  *)
(* timers and network events are queued as updater functions and run by a  *)
(* later Render; those of a user's click are rendered before the next task *)
(* starts, together with everything queued before them.  Handlers of a     *)
(* click read the messages of the last render.                             *)
(***************************************************************************)
EXTENDS Naturals, FiniteSets, Sequences, SequencesExt

CONSTANTS
    Owners,        \* accounts that sign in on this browser
    None,
    MaxStored,     \* MAX_STORED_MESSAGES
    MaxChunks,     \* chunks of one stream
    MaxSends,      \* requests sent
    MaxTweaks,     \* times a message is opened for editing or deleted
    MaxMoves       \* times the page is left or reloaded

ASSUME PlaygroundAssumption ==
    /\ Owners # {} /\ None \notin Owners
    /\ MaxStored \in Nat \ {0} /\ MaxChunks \in Nat \ {0}
    /\ MaxSends \in Nat /\ MaxTweaks \in Nat /\ MaxMoves \in Nat

VARIABLES
    owner,         \* ownerId the mounted session is bound to
    loaded,        \* hasLoadedMessagesRef, and the history is rendered
    msgs,          \* messages of the last render
    latest,        \* latestMessagesRef
    queue,         \* updaters passed to setMessages and not yet run
    saveTimer,     \* messagesSaveTimerRef is armed
    store,         \* localStorage: the messages saved under each account
    gen,           \* requestGenerationRef
    pending,       \* pendingStreamChunksRef
    flushTimer,    \* streamFlushTimerRef: generation of its callback, 0 if none
    requesting,    \* isRequesting as last set
    streaming,     \* isStreaming as last set
    shown,         \* isGenerating of the last render
    sgen,          \* generation of the stream controller
    source,        \* the controller's source, by its request; 0 if null
    reqs,          \* requests whose events may still arrive
    editing,       \* editingMessageKey
    sends,
    tweaks,
    moves

chat == <<msgs, latest, queue, saveTimer>>
request == <<gen, pending, flushTimer, sgen, source, reqs>>
flags == <<requesting, streaming, shown>>
bounds == <<sends, tweaks, moves>>
vars == <<owner, loaded, chat, store, request, flags, editing, bounds>>

-----------------------------------------------------------------------------
(* Messages.  A chunk is the generation it answers and its number in the   *)
(* stream; number 0 is text the user typed into an answer.  A message is   *)
(* known by its role and the generation it was created for.                *)

Gens == 1..(2 * MaxSends + MaxMoves)
Chunk == [gen : Gens, n : 0..MaxChunks]

Message == [from : {"user", "assistant"}, gen : Gens, by : Owners,
            status : {"loading", "streaming", "complete", "error"}, text : Seq(Chunk)]
Keys == {"user", "assistant"} \X Gens

Pending(m) == m.status \in {"loading", "streaming"}

User(g) ==
    [from |-> "user", gen |-> g, by |-> owner, status |-> "complete", text |-> <<>>]

Loading(g) ==
    [from |-> "assistant", gen |-> g, by |-> owner, status |-> "loading", text |-> <<>>]

Key(m) == <<m.from, m.gen>>

Complete(m) == [m EXCEPT !.status = "complete"]

\* An error replaces the text of the answer.
Failed(m) == [m EXCEPT !.status = "error", !.text = <<>>]

\* What one updater does to the answer it finds at the end of the list.
Apply(u, m) ==
    CASE u.do = "flush" ->
            IF m.status = "error" THEN m
            ELSE [m EXCEPT !.status = "streaming", !.text = @ \o u.text]
      [] u.do = "complete" -> IF Pending(m) THEN Complete(m) ELSE m
      [] u.do = "error" -> Failed(m)
      [] u.do = "answer" -> [Complete(m) EXCEPT !.text = u.text]

OnLastAssistant(u, ms) ==
    IF ms = <<>> \/ Last(ms).from # "assistant" THEN ms
    ELSE [ms EXCEPT ![Len(ms)] = Apply(u, @)]

Update(do, g, text) == [do |-> do, gen |-> g, text |-> text]
SetTo(ms) == [do |-> "set", gen |-> 0, text |-> ms]
Drop(k) == [do |-> "remove", gen |-> 0, text |-> k]

Updater ==
    [do : {"flush", "complete", "error", "answer"}, gen : Gens, text : Seq(Chunk)]
      \cup [do : {"set"}, gen : {0}, text : Seq(Message)]
      \cup [do : {"remove"}, gen : {0}, text : Keys]

\* removeMessageByKey
Kept(ms, k) ==
    LET kept[i \in 0..Len(ms)] ==
            IF i = 0 THEN <<>>
            ELSE IF Key(ms[i]) = k THEN kept[i - 1] ELSE Append(kept[i - 1], ms[i])
    IN  kept[Len(ms)]

\* One updater run while requestGenerationRef is g.
RunOne(u, ms, g) ==
    CASE u.do = "set" -> u.text
      [] u.do = "remove" -> Kept(ms, u.text)
      [] OTHER -> IF u.gen # g THEN ms
                  ELSE OnLastAssistant(u, ms)

Run(us, ms, g) ==
    LET run[i \in 0..Len(us)] == IF i = 0 THEN ms ELSE RunOne(us[i], run[i - 1], g)
    IN  run[Len(us)]

-----------------------------------------------------------------------------
(* Storage *)

TrimTo(ms, n) == IF Len(ms) <= n THEN ms ELSE SubSeq(ms, Len(ms) - n + 1, Len(ms))

saveMessages(o, ms) == [store EXCEPT ![o] = TrimTo(ms, MaxStored)]

\* A pending answer with text is normalised to complete; then the last one
\* still pending becomes an error.
LastPending(ms) == {i \in DOMAIN ms : Pending(ms[i]) /\ \A j \in i + 1..Len(ms) : ~Pending(ms[j])}

loadMessages(o) ==
    LET normalized == [i \in DOMAIN store[o] |->
            IF Pending(store[o][i]) /\ store[o][i].text # <<>>
            THEN Complete(store[o][i]) ELSE store[o][i]]
        trimmed == TrimTo(normalized, MaxStored)
    IN  [i \in DOMAIN trimmed |->
            IF i \in LastPending(trimmed) THEN Failed(trimmed[i]) ELSE trimmed[i]]

\* persistMessages: the debounced save is armed once the history is loaded.
Persist(ms) ==
    /\ latest' = ms
    /\ saveTimer' = (saveTimer \/ loaded)

-----------------------------------------------------------------------------
(* React: updates made by a click are rendered at once, the others later.  *)

Rendered(us, g) ==
    /\ msgs' = Run(queue \o us, msgs, g)
    /\ IF queue \o us = <<>> THEN UNCHANGED <<latest, saveTimer>> ELSE Persist(msgs')
    /\ queue' = <<>>
    /\ shown' = (requesting' \/ streaming')

\* An updater queued while nothing is queued may be run on the spot, as React
\* does when the component has no other update waiting.
Queue(us) ==
    IF us = <<>> THEN UNCHANGED chat
    ELSE \/ /\ queue' = queue \o us
            /\ UNCHANGED <<msgs, latest, saveTimer>>
         \/ /\ queue = <<>>
            /\ LET ms == RunOne(Head(us), msgs, gen) IN
                 /\ Persist(ms)
                 /\ queue' = <<SetTo(ms)>> \o Tail(us)
            /\ UNCHANGED msgs

Render ==
    /\ queue # <<>> \/ shown # (requesting \/ streaming)
    /\ UNCHANGED <<requesting, streaming>>
    /\ Rendered(<<>>, gen)
    /\ UNCHANGED <<owner, loaded, store, request, editing, bounds>>

-----------------------------------------------------------------------------
(* Requests *)

NoChunks(g) == [gen |-> g, text |-> <<>>]

Discard_KeepsTimer(g) == pending' = NoChunks(g) /\ UNCHANGED flushTimer

Discard_KeepsText(g) == pending' = [pending EXCEPT !.gen = g] /\ flushTimer' = 0

\* discardPendingStreamUpdates
Discard(g) == pending' = NoChunks(g) /\ flushTimer' = 0

\* sendStreamingChat and sendNonStreamingChat up to their first await: the
\* earlier stream is closed and the earlier call aborted.
Start ==
    /\ sends < MaxSends
    /\ sends' = sends + 1
    /\ gen' = gen + 1
    /\ Discard(gen + 1)
    /\ sgen' = sgen + 1
    /\ source' = 0
    /\ \E kind \in {"headers", "call"} :
         reqs' = reqs \cup {[gen |-> gen + 1, sgen |-> sgen + 1, at |-> kind, sent |-> 0]}
    /\ requesting' = TRUE
    /\ streaming' = FALSE

Request == [gen : Gens, sgen : Gens, at : {"headers", "open", "closed", "call"}, sent : 0..MaxChunks]

\* isCurrent of the source and the generation checks of the chat handler.
Accepts(r) == r.sgen = sgen /\ source = r.gen /\ r.gen = gen

Ended(r) == reqs' = reqs \ {r}
Becomes(r, s) == reqs' = (reqs \ {r}) \cup {s}

\* flushStreamUpdates, for the current generation.
FlushOf == IF pending.gen = gen /\ pending.text # <<>>
           THEN <<Update("flush", gen, pending.text)>> ELSE <<>>

Finish_StillRequesting(do) ==
    /\ Queue(FlushOf \o <<Update(do, gen, <<>>)>>)
    /\ pending' = NoChunks(pending.gen)
    /\ flushTimer' = 0
    /\ UNCHANGED requesting

\* handleStreamComplete and handleStreamError: flush, then the last word.
Finish(do) ==
    /\ Queue(FlushOf \o <<Update(do, gen, <<>>)>>)
    /\ pending' = NoChunks(pending.gen)
    /\ flushTimer' = 0
    /\ requesting' = FALSE

\* The headers of a stream are ready; a superseded request stops here.
HeadersReady(r) ==
    /\ r.at = "headers"
    /\ IF r.sgen = sgen
       THEN source' = r.gen /\ streaming' = TRUE /\ Becomes(r, [r EXCEPT !.at = "open"])
       ELSE Ended(r) /\ UNCHANGED <<source, streaming>>
    /\ UNCHANGED <<owner, loaded, chat, store, gen, pending, flushTimer, requesting, shown, sgen, editing, bounds>>

HeadersFailed(r) ==
    /\ r.at = "headers"
    /\ Ended(r)
    /\ IF r.sgen = sgen /\ r.gen = gen THEN Finish("error")
       ELSE UNCHANGED <<chat, pending, flushTimer, requesting>>
    /\ UNCHANGED <<owner, loaded, store, gen, sgen, source, streaming, shown, editing, bounds>>

\* handleStreamUpdate
StreamChunk(r) ==
    /\ r.at = "open" /\ r.sent < MaxChunks
    /\ IF Accepts(r) /\ pending.gen = r.gen
       THEN /\ Becomes(r, [r EXCEPT !.sent = @ + 1])
            /\ pending' = [pending EXCEPT !.text = Append(@, [gen |-> r.gen, n |-> r.sent + 1])]
            /\ flushTimer' = IF flushTimer = 0 THEN r.gen ELSE flushTimer
       ELSE UNCHANGED <<reqs, pending, flushTimer>>
    /\ UNCHANGED <<owner, loaded, chat, store, gen, flags, sgen, source, editing, bounds>>

\* "[DONE]", or an error event, a status other than 200 or an unreadable chunk.
StreamEnd(r) ==
    /\ r.at = "open"
    /\ Ended(r)
    /\ IF Accepts(r)
       THEN /\ \E do \in {"complete", "error"} : Finish(do)
            /\ source' = 0
            /\ streaming' = FALSE
       ELSE UNCHANGED <<chat, pending, flushTimer, requesting, source, streaming>>
    /\ UNCHANGED <<owner, loaded, store, gen, sgen, shown, editing, bounds>>

\* The connection ends with status 200 and without "[DONE]": no listener acts.
StreamCloses(r) ==
    /\ r.at = "open"
    /\ Becomes(r, [r EXCEPT !.at = "closed"])
    /\ UNCHANGED <<owner, loaded, chat, store, gen, pending, flushTimer, sgen, source, flags, editing, bounds>>

\* The reply of a request without streaming, or its failure.
CallEnd(r) ==
    /\ r.at = "call"
    /\ Ended(r)
    /\ IF r.gen = gen
       THEN \/ /\ Queue(<<Update("answer", gen, <<[gen |-> gen, n |-> 1]>>)>>)
               /\ requesting' = FALSE
               /\ UNCHANGED <<pending, flushTimer>>
            \/ Finish("error")
       ELSE UNCHANGED <<chat, pending, flushTimer, requesting>>
    /\ UNCHANGED <<owner, loaded, store, gen, sgen, source, streaming, shown, editing, bounds>>

FlushTimer ==
    /\ flushTimer # 0
    /\ flushTimer' = 0
    /\ IF flushTimer = gen
       THEN Queue(FlushOf) /\ pending' = NoChunks(pending.gen)
       ELSE UNCHANGED <<chat, pending>>
    /\ UNCHANGED <<owner, loaded, store, gen, sgen, source, reqs, flags, editing, bounds>>

-----------------------------------------------------------------------------
(* The user.  Every handler reads the rendered messages and `shown`.       *)

\* Updates of a click that sends no request.
Click(us) ==
    /\ UNCHANGED <<owner, loaded, store, request, requesting, streaming, sends, moves>>
    /\ Rendered(us, gen)

\* Updates of a click that sends the messages ms.
Submit(ms) ==
    /\ Start
    /\ Rendered(<<SetTo(ms)>>, gen')
    /\ UNCHANGED <<owner, loaded, store, tweaks, moves>>

SendMessage ==
    /\ loaded /\ ~shown
    /\ Submit(msgs \o <<User(gen + 1), Loading(gen + 1)>>)
    /\ UNCHANGED editing

RegenerateMessage ==
    /\ loaded /\ ~shown
    /\ \E i \in DOMAIN msgs :
         Submit(SubSeq(msgs, 1, IF msgs[i].from = "user" THEN i ELSE i - 1) \o <<Loading(gen + 1)>>)
    /\ UNCHANGED editing

Tweak ==
    /\ loaded /\ ~shown
    /\ tweaks < MaxTweaks
    /\ tweaks' = tweaks + 1

DeleteMessage ==
    /\ Tweak
    /\ \E i \in DOMAIN msgs : Click(<<Drop(Key(msgs[i]))>>)
    /\ UNCHANGED editing

ClearMessages ==
    /\ Tweak
    /\ msgs # <<>>
    /\ Click(<<SetTo(<<>>)>>)
    /\ editing' = None

EditMessage ==
    /\ Tweak
    /\ \E i \in DOMAIN msgs : editing # Key(msgs[i]) /\ editing' = Key(msgs[i])
    /\ Click(<<>>)

CancelEdit ==
    /\ editing # None
    /\ editing' = None
    /\ Click(<<>>)
    /\ UNCHANGED tweaks

\* The user's text replaces an answer's; it stays his in a question.
Edited(m) == IF m.from = "user" THEN m
             ELSE [m EXCEPT !.text = <<[gen |-> m.gen, n |-> 0]>>]

\* applyEdit: the editor stays open, and enabled, while an answer arrives.
SaveEdit ==
    \E i \in DOMAIN msgs :
        /\ Key(msgs[i]) = editing
        /\ editing' = None
        /\ LET edited == [msgs EXCEPT ![i] = Edited(@)] IN
             \/ Click(<<SetTo(edited)>>) /\ UNCHANGED tweaks
             \/ /\ msgs[i].from = "user"
                /\ Submit(SubSeq(edited, 1, i) \o <<Loading(gen + 1)>>)

StopUpdate_StoppedGeneration == Update("complete", gen, <<>>)

\* The updater of stopGeneration belongs to the idle generation.
StopUpdate == Update("complete", gen + 1, <<>>)

\* stopGeneration: its flush is run on the spot or, once queued, finds the
\* generation gone.
StopGeneration ==
    /\ shown
    /\ gen' = gen + 1
    /\ Discard(gen + 1)
    /\ sgen' = sgen + 1
    /\ source' = 0
    /\ requesting' = FALSE
    /\ streaming' = FALSE
    /\ \E us \in {FlushOf, IF queue = <<>> THEN <<SetTo(Run(FlushOf, msgs, gen))>> ELSE FlushOf} :
         Rendered(us \o <<StopUpdate>>, gen + 1)
    /\ UNCHANGED <<owner, loaded, store, reqs, editing, bounds>>

-----------------------------------------------------------------------------
(* The session: loaded, saved, left for another page or account, reloaded.  *)

LoadHistory ==
    /\ ~loaded
    /\ loaded' = TRUE
    /\ msgs' = loadMessages(owner)
    /\ latest' = msgs'
    /\ store' = IF msgs' = store[owner] THEN store ELSE saveMessages(owner, msgs')
    /\ UNCHANGED <<owner, queue, saveTimer, request, flags, editing, bounds>>

SaveTimer ==
    /\ saveTimer
    /\ saveTimer' = FALSE
    /\ store' = saveMessages(owner, latest)
    /\ UNCHANGED <<owner, loaded, msgs, latest, queue, request, flags, editing, bounds>>

\* A new session is mounted for o.  Requests of the last one are cancelled by
\* the cleanup effects, or are gone with the page.
Mount(o) ==
    /\ moves < MaxMoves
    /\ moves' = moves + 1
    /\ owner' = o
    /\ loaded' = FALSE
    /\ msgs' = <<>> /\ latest' = <<>> /\ queue' = <<>> /\ saveTimer' = FALSE
    /\ gen' = gen + 1
    /\ Discard(0)
    /\ sgen' = sgen + 1
    /\ source' = 0
    /\ requesting' = FALSE /\ streaming' = FALSE /\ shown' = FALSE
    /\ editing' = None

Unmounted_CurrentAccount(o) == IF saveTimer THEN saveMessages(o, latest) ELSE store

Unmounted_TimerCleared(o) == store

\* The unmount effect: the account of the old session keeps its messages.
Unmounted(o) == IF saveTimer THEN saveMessages(owner, latest) ELSE store

Leave(o) ==
    /\ Mount(o)
    /\ store' = Unmounted(o)
    /\ UNCHANGED <<reqs, sends, tweaks>>

Reload ==
    /\ Mount(owner)
    /\ reqs' = {}
    /\ UNCHANGED <<store, sends, tweaks>>

-----------------------------------------------------------------------------
Init ==
    /\ owner = CHOOSE o \in Owners : TRUE
    /\ loaded = FALSE
    /\ msgs = <<>> /\ latest = <<>> /\ queue = <<>> /\ saveTimer = FALSE
    /\ store = [o \in Owners |-> <<>>]
    /\ gen = 0 /\ pending = NoChunks(0) /\ flushTimer = 0
    /\ requesting = FALSE /\ streaming = FALSE /\ shown = FALSE
    /\ sgen = 0 /\ source = 0 /\ reqs = {}
    /\ editing = None
    /\ sends = 0 /\ tweaks = 0 /\ moves = 0

UserAction ==
    \/ SendMessage \/ RegenerateMessage \/ DeleteMessage \/ ClearMessages
    \/ EditMessage \/ CancelEdit \/ SaveEdit \/ StopGeneration

\* An event that brings the request in force nearer its end.
Progress ==
    \E r \in reqs :
        /\ r.gen = gen
        /\ HeadersReady(r) \/ HeadersFailed(r) \/ StreamEnd(r) \/ CallEnd(r)

Next ==
    \/ UserAction
    \/ \E r \in reqs : \/ HeadersReady(r) \/ HeadersFailed(r) \/ StreamChunk(r)
                       \/ StreamEnd(r) \/ StreamCloses(r) \/ CallEnd(r)
    \/ Render \/ FlushTimer \/ SaveTimer \/ LoadHistory
    \/ \E o \in Owners : Leave(o)
    \/ Reload

\* The browser renders what was queued, and every request is answered or
\* fails (a stream may still close without its last message).
Fairness == WF_vars(Render) /\ WF_vars(Progress)

Spec == Init /\ [][Next]_vars /\ Fairness

-----------------------------------------------------------------------------
(* Properties *)

Lists == {msgs, latest} \cup {store[o] : o \in Owners}

\* The variables have their types; an armed flush timer and the buffered
\* chunks belong to the generation in force, so that no chunk buffered for
\* one answer waits while another is being produced.
TypeOK ==
    /\ owner \in Owners /\ loaded \in BOOLEAN /\ saveTimer \in BOOLEAN
    /\ requesting \in BOOLEAN /\ streaming \in BOOLEAN /\ shown \in BOOLEAN
    /\ msgs \in Seq(Message) /\ latest \in Seq(Message) /\ queue \in Seq(Updater)
    /\ store \in [Owners -> Seq(Message)]
    /\ gen \in Nat /\ sgen \in Nat /\ reqs \subseteq Request
    /\ pending \in [gen : {0, gen}, text : Seq(Chunk)]
    /\ flushTimer \in {0, gen} /\ source \in {0, gen}
    /\ editing \in Keys \cup {None}
    /\ sends \in 0..MaxSends /\ tweaks \in 0..MaxTweaks /\ moves \in 0..MaxMoves

\* Text streamed for one generation is only ever found in the answer created
\* for it, each chunk at most once and in the order of the stream: whatever
\* was stopped, regenerated, edited, left or reloaded meanwhile, no answer
\* receives the text of another (the generation checks of use-chat-handler.ts
\* and use-stream-request.ts, with updateLastAssistantMessage).
OwnAnswer ==
    \A ms \in Lists : \A m \in ToSet(ms) :
        /\ \A c \in ToSet(m.text) : c.gen = m.gen
        /\ \A i, j \in DOMAIN m.text : i < j => m.text[i].n < m.text[j].n

\* A conversation is saved and shown only under the account it was held
\* with, also when the account changes before the debounced save ran
\* (usePlaygroundState binds queued writes to ownerId).
OwnChat ==
    /\ \A m \in ToSet(msgs) \cup ToSet(latest) : m.by = owner
    /\ \A o \in Owners : \A m \in ToSet(store[o]) : m.by = o

\* When the controls return to idle no answer is left loading or streaming,
\* however the generation ended; unless the click that shows it also saves an
\* edit, which puts back the messages of the render before.
EndedIsSettled ==
    [][shown /\ ~shown' /\ ~SaveEdit =>
         \A m \in ToSet(msgs') : Pending(m) => m \in ToSet(msgs) /\ m # Last(msgs)]_vars

\* Leaving the page or changing the account loses nothing of what was shown:
\* what the last render displayed is in storage when the session is gone
\* (nothing waited to be rendered).
LeavingKeepsChat ==
    [][loaded /\ queue = <<>> /\ (\E o \in Owners : Leave(o))
         => store'[owner] = TrimTo(msgs, MaxStored)]_vars

\* The controls do not stay disabled: a generation ends, unless its stream was
\* closed with status 200 and without its "[DONE]" message.
ClosedSilently == \E r \in reqs : r.at = "closed" /\ Accepts(r)
GenerationEnds == shown ~> (~shown \/ ClosedSilently)

-----------------------------------------------------------------------------
(* Why they hold: PlayInv is inductive.                                    *)

Final == {"complete", "error", "answer"}
Before(s, t) == \A c \in ToSet(s), d \in ToSet(t) : c.n < d.n
Ascending(s) == \A i, j \in DOMAIN s : i < j => s[i].n < s[j].n
Streamed(s, g) == Ascending(s) /\ \A c \in ToSet(s) : c.gen = g /\ c.n > 0

\* A message of an account: its own text, of a generation that has begun.
Sound(m, o, g) ==
    /\ m.by = o /\ m.gen <= g
    /\ Ascending(m.text) /\ \A c \in ToSet(m.text) : c.gen = m.gen
SoundList(ms, o, g) == \A i \in DOMAIN ms : Sound(ms[i], o, g)

\* A list that ends with the answer of generation g, its only one.
Answering(ms, g) ==
    /\ ms # <<>> /\ Last(ms).from = "assistant" /\ Last(ms).gen = g
    /\ \A i \in 1..(Len(ms) - 1) : ms[i].from = "assistant" => ms[i].gen < g

\* Only the last message differs.
Alike(ms, ns) == Len(ms) = Len(ns) /\ \A i \in 1..(Len(ms) - 1) : ms[i] = ns[i]

\* An updater that may wait while ms is shown.
Legal(u, ms, o, g) ==
    /\ u.do # "remove"
    /\ u.do = "set" => Alike(u.text, ms) /\ Answering(u.text, g) /\ SoundList(u.text, o, g)
    /\ u.do # "set" => u.gen = g
    /\ u.do = "flush" => Streamed(u.text, g)
    /\ u.do = "answer" => u.text = <<[gen |-> g, n |-> 1]>>

\* The text an updater leaves at the end of the list, and all the text that
\* may end there once q has run.
Left(u) == IF u.do = "set" THEN Last(u.text).text ELSE u.text
Given(ms, q) == ToSet(Last(ms).text) \cup UNION {ToSet(Left(q[i])) : i \in DOMAIN q}

\* An answer being produced: the updaters that wait are legal, the last word
\* comes last, and the chunks are in the order of the stream.
Talk(ms, q, o, g) ==
    /\ Answering(ms, g) /\ SoundList(ms, o, g)
    /\ \A i \in DOMAIN q : Legal(q[i], ms, o, g) /\ (q[i].do \in Final => i = Len(q))
    /\ \A j \in DOMAIN q : q[j].do = "flush" =>
         /\ Before(Last(ms).text, q[j].text)
         /\ \A i \in 1..(j - 1) : Before(Left(q[i]), q[j].text)

\* Generations and requests.
Counted ==
    /\ sgen = gen
    /\ gen + (IF shown THEN 1 ELSE 0) <= 2 * sends + moves
    /\ \A r \in reqs : r.sgen = r.gen /\ r.gen <= gen
    /\ \A r, s \in reqs : r.gen = s.gen => r = s

\* What a request in force, and the text buffered for it, may rely on.
InForce ==
    /\ \A r \in reqs : r.gen = gen =>
         requesting /\ shown /\ (r.at \in {"open", "closed"} => source = gen)
    /\ pending.text # <<>> =>
         \E r \in reqs : /\ r.gen = gen /\ pending.gen = gen /\ r.at \in {"open", "closed"}
                         /\ \A c \in ToSet(pending.text) : c.n <= r.sent
    /\ requesting \/ streaming => shown
    /\ Streamed(pending.text, gen)

\* Updaters wait only while an answer is shown as being produced, and its
\* text has been sent before the text still buffered.
Waiting ==
    /\ queue # <<>> => shown
    /\ shown => Talk(msgs, queue, owner, gen)
    /\ shown => \A c \in Given(msgs, queue) :
                  /\ \A d \in ToSet(pending.text) : c.n < d.n
                  /\ \A r \in reqs : r.gen = gen => c.n <= r.sent
    /\ requesting => \A i \in DOMAIN queue : queue[i].do \notin Final

\* Lists belong to their accounts.
Listed ==
    /\ SoundList(msgs, owner, gen) /\ SoundList(latest, owner, gen)
    /\ \A o \in Owners : SoundList(store[o], o, gen) /\ Len(store[o]) <= MaxStored

\* A generation that is over, and still shown, has its last word in the queue.
LastWord(q) ==
    /\ q # <<>>
    /\ Last(q).do \in Final \/ (Last(q).do = "set" /\ ~Pending(Last(Last(q).text)))
Settling == shown /\ ~requesting /\ ~streaming => LastWord(queue)

\* What is shown is saved, or about to be.
Saved ==
    /\ ~loaded => msgs = <<>> /\ queue = <<>> /\ ~shown /\ ~saveTimer
    /\ loaded /\ queue = <<>> => latest = msgs /\ (saveTimer \/ store[owner] = TrimTo(msgs, MaxStored))

PlayInv == TypeOK /\ Counted /\ InForce /\ Waiting /\ Listed /\ Settling /\ Saved
=============================================================================
