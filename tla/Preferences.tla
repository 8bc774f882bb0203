---- MODULE Preferences ----
(***************************************************************************)
(* The memory of the owner's preferences: one private Markdown file, made  *)
(* anew from decisions whenever a greeting or a search is to be written,   *)
(* and read again by compiled snapshots.  A learner loads the file and     *)
(* then the decisions, lets a model summarize what is new, and saves under *)
(* a lock if the file is still the version it loaded; the words it chooses *)
(* and drafts next name the version they come from.                        *)
(* A version is a digest of the one before, the decisions and the rules it *)
(* was made of; here it is that line of summaries itself.  A decision is   *)
(* its id; what a rule says, and when, is left out.                        *)
(***************************************************************************)
EXTENDS Naturals, Sequences, FiniteSets

CONSTANTS
    Learners,    \* processes that refresh the memory and write from it
    Watchers,    \* processes that compile snapshots and ask for a context
    Feedback,    \* decision id -> [job, action, explained]
    Proposals,   \* rules a model may write: [category, scope, job, sources]
    Wordings,    \* texts a greeting may have
    Statutes,    \* rules the owner may confirm in the database
    MaxLearnings, \* bound on refreshes begun
    NoLearning   \* nothing at work, no job

ASSUME PreferenceSorts == MaxLearnings \in Nat /\ \A r \in Proposals : IsFiniteSet(r.sources)

VARIABLES
    answered,       \* decisions stored with the list they answer
    owned,      \* decisions whose item rests on evidence that is confirmed
    memory,     \* the file: [there, line], a line of [fresh, digested, rules]
    history,    \* lines in the history directory
    locked,     \* the lock file is there
    learning,   \* what a learner is at
    learnings,  \* refreshes begun
    requested,  \* requests written: [line, rules]
    drafted,    \* greetings kept: [line, text, refused]
    statutes,   \* rules confirmed now
    snapshots,  \* the sidecar: [memory, statutes]
    watching,   \* what a watcher is at
    bundles,    \* contexts given as ready: [line, statutes]
    met         \* the lines and statutes that held together at some time

learnVars == <<answered, owned, memory, history, locked, learning, learnings, requested, drafted>>
watchVars == <<statutes, snapshots, watching, bundles>>
preferenceVars == <<learnVars, watchVars, met>>

Decisions == DOMAIN Feedback
Consumed(line) == UNION {line[i].fresh : i \in DOMAIN line}
Undigested(line) == UNION {line[i].fresh : i \in {j \in DOMAIN line : ~line[j].digested}}
RulesOf(line) == IF line = <<>> THEN {} ELSE line[Len(line)].rules

\* No file, or one from before the digests of decisions were kept.
PreferenceInit ==
    /\ \E old \in {{}} \cup {{d} : d \in Decisions} :
          /\ answered = old
          /\ memory = IF old = {} THEN [there |-> FALSE, line |-> <<>>]
                      ELSE [there |-> TRUE,
                            line |-> <<[fresh |-> old, digested |-> FALSE, rules |-> {}]>>]
    /\ owned = Decisions /\ history = {} /\ locked = FALSE
    /\ learning = [l \in Learners |-> NoLearning] /\ learnings = 0
    /\ requested = {} /\ drafted = {}
    /\ statutes = {} /\ snapshots = {} /\ watching = [w \in Watchers |-> NoLearning]
    /\ bundles = {} /\ met = {<<memory.line, statutes>>}

----
\* The owner decides about an item that is the candidate's own.
TellDecision(d) ==
    /\ d \in owned \ answered /\ answered' = answered \cup {d}
    /\ UNCHANGED <<owned, memory, history, locked, learning, learnings, requested, drafted>>

\* Evidence edited is unconfirmed until it is confirmed again.
EditEvidence(d) ==
    /\ d \in owned /\ owned' = owned \ {d}
    /\ UNCHANGED <<answered, memory, history, locked, learning, learnings, requested, drafted>>
ConfirmEvidence(d) ==
    /\ d \notin owned /\ owned' = owned \cup {d}
    /\ UNCHANGED <<answered, memory, history, locked, learning, learnings, requested, drafted>>

----
AtLearning(l, stage) == learning[l] # NoLearning /\ learning[l].stage = stage
Learns(l, w) == learning' = [learning EXCEPT ![l] = w]
Reaches(l, stage) == Learns(l, [learning[l] EXCEPT !.stage = stage])

\* load: a file that is not there is an empty memory.
LoadMemory(l) ==
    /\ learning[l] = NoLearning /\ learnings < MaxLearnings
    /\ learnings' = learnings + 1
    /\ Learns(l, [stage |-> "loaded", line |-> memory.line, events |-> {},
                  next |-> memory.line, tries |-> <<>>])
    /\ UNCHANGED <<answered, owned, memory, history, locked, requested, drafted>>

\* load_preference_events reads, in a transaction of its own, what is bound to its list and still
\* the candidate's.
StillOwned == answered \cap owned

ReadDecisions(l) ==
    /\ AtLearning(l, "loaded")
    /\ Learns(l, [learning[l] EXCEPT !.stage = "read", !.events = StillOwned])
    /\ UNCHANGED <<answered, owned, memory, history, locked, learnings, requested, drafted>>

Unexplained(e) == ~Feedback[e].explained
Declined(e) == Feedback[e].action = "decline"

\* What update accepts of a rule: the decisions that can be read now bear it.
Warranted(r, events, line) ==
    LET heard == r.sources \cap events
        fresh == events \ Consumed(line)
    IN /\ r.sources \subseteq Consumed(line) \cup events
       /\ r.sources \cap fresh = {} => r \in RulesOf(line)
       /\ heard # {} =>
             /\ r.scope = "job" => \E e \in heard : Feedback[e].job = r.job
             /\ r.scope = "general" /\ Cardinality(r.sources) < 2
                   => \E e \in heard : ~Unexplained(e)
             /\ r.category = "greetings" => \E e \in heard : ~Declined(e)
             /\ r.category = "jobs" /\ r.scope # "job" /\ Cardinality(heard) = 1
                   => \E e \in heard : ~Declined(e) \/ ~Unexplained(e)

\* A decision consumed without its digest stops the update while it can be read.
Summarize(l) ==
    /\ AtLearning(l, "read")
    /\ LET line == learning[l].line
           events == learning[l].events
           fresh == events \ Consumed(line)
       IN /\ events \cap Undigested(line) = {}
          /\ \/ fresh = {} /\ Reaches(l, "summed")
             \/ /\ fresh # {}
                /\ \E rules \in {{}} \cup {{r} : r \in Proposals} :
                      /\ \A r \in rules : Warranted(r, events, line)
                      /\ Learns(l, [learning[l] EXCEPT !.stage = "summed",
                            !.next = Append(line, [fresh |-> fresh, digested |-> TRUE,
                                                   rules |-> rules])])
    /\ UNCHANGED <<answered, owned, memory, history, locked, learnings, requested, drafted>>

\* refresh saves nothing if nothing is new and the file is there.
KeepAsIs(l) ==
    /\ AtLearning(l, "summed") /\ memory.there /\ learning[l].next = learning[l].line
    /\ Reaches(l, "fresh")
    /\ UNCHANGED <<answered, owned, memory, history, locked, learnings, requested, drafted>>

----
\* save: the lock is a file made anew, and refuses whoever finds it there.
TakeLock(l) ==
    /\ AtLearning(l, "summed") /\ ~(memory.there /\ learning[l].next = learning[l].line)
    /\ ~locked /\ locked' = TRUE
    /\ Reaches(l, "locked")
    /\ UNCHANGED <<answered, owned, memory, history, learnings, requested, drafted>>

AsLoaded(l) ==
    /\ memory.line = learning[l].line
    /\ ~(memory.there /\ memory.line = learning[l].next)

\* What was there goes to the history before it is replaced.
BackUp(l) ==
    /\ AtLearning(l, "locked") /\ AsLoaded(l)
    /\ history' = IF memory.there THEN history \cup {memory.line} ELSE history
    /\ Reaches(l, "backed")
    /\ UNCHANGED <<answered, owned, memory, locked, learnings, requested, drafted>>

\* Mutant: the file is replaced before its backup.
ReplaceableAtOnce(l) == AtLearning(l, "backed") \/ (AtLearning(l, "locked") /\ AsLoaded(l))

Replaceable(l) == AtLearning(l, "backed")

ReplaceMemory(l) ==
    /\ Replaceable(l)
    /\ memory' = [there |-> TRUE, line |-> learning[l].next]
    /\ Reaches(l, "replaced")
    /\ UNCHANGED <<answered, owned, history, locked, learnings, requested, drafted>>

ReleaseLock(l) ==
    /\ AtLearning(l, "replaced") /\ locked' = FALSE
    /\ Reaches(l, "fresh")
    /\ UNCHANGED <<answered, owned, memory, history, learnings, requested, drafted>>

Saving(l) == \E stage \in {"locked", "backed", "replaced"} : AtLearning(l, stage)

\* The refresh ends with the error; nothing is written from what it summarized.
AfterRefusal(l) == NoLearning

LearningFails(l) ==
    /\ learning[l] # NoLearning /\ ~AtLearning(l, "replaced")
    /\ locked' = (locked /\ ~Saving(l))
    /\ Learns(l, AfterRefusal(l))
    /\ UNCHANGED <<answered, owned, memory, history, learnings, requested, drafted>>

\* A process that dies leaves the lock behind, and no code takes it away.
LearnerDies(l) ==
    /\ learning[l] # NoLearning /\ Learns(l, NoLearning)
    /\ UNCHANGED <<answered, owned, memory, history, locked, learnings, requested, drafted>>

----
\* What of a memory a task may take: the model chooses among these.
Eligible(line, task, job) ==
    {r \in RulesOf(line) :
        /\ r.category = IF task = "search" THEN "jobs" ELSE "greetings"
        /\ r.scope = "job" => r.job = job
        /\ task = "greeting" /\ job = NoLearning => r.scope = "general"}

RequestWith(line, rules) == requested' = requested \cup {[line |-> line, rules |-> rules]}

\* search-plan: each board's terms may be chosen by rules of the memory the refresh returned.
PlanSearch(l) ==
    /\ AtLearning(l, "fresh")
    /\ LET line == learning[l].next IN
       \E rules \in SUBSET Eligible(line, "search", NoLearning) : RequestWith(line, rules)
    /\ Learns(l, NoLearning)
    /\ UNCHANGED <<answered, owned, memory, history, locked, learnings, drafted>>

\* generate stores the request before a word is written; only for a job is a draft to be kept.
RequestGreeting(l) ==
    /\ AtLearning(l, "fresh")
    /\ LET line == learning[l].next IN
       \E job \in {NoLearning} \cup {Feedback[d].job : d \in Decisions} :
          /\ \E rules \in SUBSET Eligible(line, "greeting", job) : RequestWith(line, rules)
          /\ IF job = NoLearning THEN Learns(l, NoLearning) ELSE Reaches(l, "writing")
    /\ UNCHANGED <<answered, owned, memory, history, locked, learnings, drafted>>

\* Mutant: the second text goes to the reviewer even if it is the first again.
RevisedAtAll(tries, text) == TRUE

\* A revision that changes nothing is refused without a second opinion.
Revised(tries, text) == tries # <<>> => text # tries[Len(tries)]

\* generate: two texts at most, each judged by a review of its own; the last one counts.
Attempt(l) ==
    /\ AtLearning(l, "writing")
    /\ LET w == learning[l] IN
       \E text \in Wordings, clean \in BOOLEAN :
          /\ clean => Revised(w.tries, text)
          /\ IF clean
             THEN /\ drafted' = drafted \cup {[line |-> w.next, text |-> text,
                         refused |-> {w.tries[i] : i \in DOMAIN w.tries}]}
                  /\ Learns(l, NoLearning)
             ELSE /\ Learns(l, IF w.tries # <<>> THEN NoLearning
                               ELSE [w EXCEPT !.tries = <<text>>])
                  /\ UNCHANGED drafted
    /\ UNCHANGED <<answered, owned, memory, history, locked, learnings, requested>>

----
\* The owner confirms rules in the database, and takes them back.
SettleStatute ==
    /\ statutes' \in SUBSET Statutes /\ statutes' # statutes
    /\ UNCHANGED <<snapshots, watching, bundles>>

AtWatching(w, stage) == watching[w] # NoLearning /\ watching[w].stage = stage
Watches(w, v) == watching' = [watching EXCEPT ![w] = v]

\* compile reads one source after the other, and keeps once what it read.
CompileMemory(w) ==
    /\ watching[w] = NoLearning
    /\ Watches(w, [stage |-> "compiling", memory |-> memory, statutes |-> {}])
    /\ UNCHANGED <<statutes, snapshots, bundles>>
CompileStatutes(w) ==
    /\ AtWatching(w, "compiling")
    /\ Watches(w, [watching[w] EXCEPT !.stage = "compiled", !.statutes = statutes])
    /\ UNCHANGED <<statutes, snapshots, bundles>>
SaveSnapshot(w) ==
    /\ AtWatching(w, "compiled")
    /\ snapshots' = snapshots \cup {[memory |-> watching[w].memory,
                                     statutes |-> watching[w].statutes]}
    /\ Watches(w, NoLearning)
    /\ UNCHANGED <<statutes, bundles>>

Unchanged(now, then) == now = then

\* context reads the sources again, each to be what the snapshot says, the file there.
CheckMemory(w) ==
    /\ watching[w] = NoLearning /\ memory.there
    /\ \E s \in snapshots :
          /\ Unchanged(memory, s.memory)
          /\ Watches(w, [stage |-> "checking", memory |-> memory, statutes |-> s.statutes])
    /\ UNCHANGED <<statutes, snapshots, bundles>>
CheckStatutes(w) ==
    /\ AtWatching(w, "checking") /\ Unchanged(statutes, watching[w].statutes)
    /\ bundles' = bundles \cup {[line |-> watching[w].memory.line, statutes |-> statutes]}
    /\ Watches(w, NoLearning)
    /\ UNCHANGED <<statutes, snapshots>>

\* A source that changed blocks the context; a process may also die.
WatchEnds(w) ==
    /\ watching[w] # NoLearning /\ Watches(w, NoLearning)
    /\ UNCHANGED <<statutes, snapshots, bundles>>

----
LearnNext ==
    \/ \E d \in Decisions : TellDecision(d) \/ EditEvidence(d) \/ ConfirmEvidence(d)
    \/ \E l \in Learners :
          \/ LoadMemory(l) \/ ReadDecisions(l) \/ Summarize(l) \/ KeepAsIs(l) \/ TakeLock(l)
          \/ BackUp(l) \/ ReplaceMemory(l) \/ ReleaseLock(l) \/ LearningFails(l)
          \/ LearnerDies(l) \/ PlanSearch(l) \/ RequestGreeting(l) \/ Attempt(l)
WatchNext ==
    \/ SettleStatute
    \/ \E w \in Watchers :
          \/ CompileMemory(w) \/ CompileStatutes(w) \/ SaveSnapshot(w)
          \/ CheckMemory(w) \/ CheckStatutes(w) \/ WatchEnds(w)

PreferenceNext ==
    /\ (LearnNext /\ UNCHANGED watchVars) \/ (WatchNext /\ UNCHANGED learnVars)
    /\ met' = met \cup {<<memory'.line, statutes'>>}
PreferenceSpec == PreferenceInit /\ [][PreferenceNext]_preferenceVars

----
Kept == history \cup {memory.line}

\* The versions that are kept make one line: of two that were summarized from the same version at
\* the same time one is refused, so that no decision is consumed by one and forgotten by the other
\* (MarkdownPreferenceStore.save).
OneLine ==
    \A a, b \in Kept : Len(a) <= Len(b) => a = SubSeq(b, 1, Len(a))

\* Every version the file had before is in the history, wherever a writer died.
HistoryKept == \A i \in 1..(Len(memory.line) - 1) : SubSeq(memory.line, 1, i) \in history

\* No rule outgrows the decisions it names, also when these can no longer be read: declining a job
\* does not judge a greeting, one decision nobody explained restricts nothing in general, and a
\* rule for a job comes from that job (update).
RulesWarranted ==
    \A r \in RulesOf(memory.line) :
        /\ r.sources \subseteq Consumed(memory.line)
        /\ r.category = "greetings" => \E e \in r.sources : ~Declined(e)
        /\ r.scope = "general" /\ Cardinality(r.sources) = 1
              => \A e \in r.sources : ~Unexplained(e)
        /\ r.scope = "job" => \E e \in r.sources : Feedback[e].job = r.job

\* The version a request or a greeting names, but for the empty one, can be looked up, and had the
\* rules it was given (refresh_preference_memory, select, GenerationProvenance).
ProvenanceFound ==
    /\ \A q \in requested : q.line \in Kept \cup {<<>>} /\ q.rules \subseteq RulesOf(q.line)
    /\ \A g \in drafted : g.line \in Kept \cup {<<>>}

\* No greeting is kept whose very text the reviewer refused in the same run (generate).
RefusalsHold == \A g \in drafted : g.text \notin g.refused

\* The preferences and the rules of a context once held together: a file that was replaced while
\* the sources were read, twice, is never given with rules of another time (compile, context).
ContextCoherent == \A b \in bundles : <<b.line, b.statutes>> \in met

\* The file of preferences is one line of versions, all kept, and each rule is warranted by decisions
\* (MarkdownPreferenceStore, update).
PreferencesLearned ==
    /\ OneLine
    /\ HistoryKept
    /\ RulesWarranted

\* A request, a greeting and a context name preferences and rules that were so together and can be
\* looked up, and no text refused in the same run is kept (select, generate, compile).
PreferencesUsed ==
    /\ ProvenanceFound
    /\ RefusalsHold
    /\ ContextCoherent
====
