------------------------------ MODULE StatsCache ------------------------------
(***************************************************************************)
(* The cached journal index of one user and the validators of HTTP:        *)
(* app/utils/statscache.py, its readers (services/journal.py,              *)
(* routes/journal_api.py, GET /api/data) and everybody who changes records.*)
(*                                                                         *)
(* A writer commits, then invalidates, then answers; an exception between  *)
(* the first two leaves the cache as it is and answers with an error.  A   *)
(* reader takes the version, reads the database, and stores what it has    *)
(* computed if the version is still the same.  _lock covers each call of   *)
(* the cache and nothing in between, so all steps interleave.              *)
(*                                                                         *)
(* The records are abstracted to the number of commits they include: what  *)
(* a transaction reads is `db' at its first statement.                     *)
(***************************************************************************)
EXTENDS Naturals

CONSTANTS
    Readers,    \* threads that answer reads
    Writers,    \* threads that change records
    NoModel,    \* nothing is cached
    MaxCommits, \* bound on the number of commits
    MaxBoots    \* bound on the number of times the server starts

ASSUME ThreadsAssumption == MaxCommits \in Nat /\ MaxBoots \in Nat

Version == [boot : Nat, count : Nat]    \* _etag_locked: _BOOT_ID, _data_versions
Model == [version : Version, content : Nat]

ASSUME NoModelAssumption == NoModel \notin Model

VARIABLES
    db,         \* the number of commits
    version,    \* the version data_etag returns
    cache,      \* _stats_cache of the user
    writer,     \* the commit each writer has not yet invalidated for, or 0
    reader,     \* the reads in progress
    held,       \* responses browsers hold: body and validator
    announced   \* history: the last commit that was followed by invalidate

statsVars == <<db, version, cache, writer, reader, held, announced>>

(* etag: the validator of the response; version: the version taken by      *)
(* snapshot(), then that of the model; content: what the body is made of;  *)
(* rows: what a page of the history reads; floor (history): the changes    *)
(* announced when the read began.                                          *)
NoVersion == [boot |-> 0, count |-> 0]
Stages == {"idle", "asked", "versioned", "opened", "built", "answering", "paging"}
Read == [pc : Stages, etag : Version, version : Version,
         content : Nat, rows : Nat, floor : Nat]
NotReading == [pc |-> "idle", etag |-> NoVersion, version |-> NoVersion,
               content |-> 0, rows |-> 0, floor |-> 0]

Response == [etag : Version, content : Nat]

(* reader r goes on with f.                                                *)
Go(r, f) == reader' = [reader EXCEPT ![r] = f]

-----------------------------------------------------------------------------
(* Writers.                                                                *)

Commit(w) ==
    /\ writer[w] = 0
    /\ db < MaxCommits
    /\ db' = db + 1
    /\ writer' = [writer EXCEPT ![w] = db + 1]
    /\ UNCHANGED <<version, cache, reader, held, announced>>

(* Mutant: only the cached model goes.                                     *)
InvalidateKeys(w) ==
    /\ writer[w] # 0
    /\ cache' = NoModel
    /\ announced' = IF writer[w] > announced THEN writer[w] ELSE announced
    /\ writer' = [writer EXCEPT ![w] = 0]
    /\ UNCHANGED <<db, version, reader, held>>

(* invalidate: the keys of the user go and the version rises; then the     *)
(* change is answered.                                                     *)
Invalidate(w) ==
    /\ writer[w] # 0
    /\ cache' = NoModel
    /\ version' = [version EXCEPT !.count = @ + 1]
    /\ announced' = IF writer[w] > announced THEN writer[w] ELSE announced
    /\ writer' = [writer EXCEPT ![w] = 0]
    /\ UNCHANGED <<db, reader, held>>

(* An exception after the commit, as in _release_uploads: the change is    *)
(* answered with an error and nobody invalidates.                          *)
FailAfterCommit(w) ==
    /\ writer[w] # 0
    /\ writer' = [writer EXCEPT ![w] = 0]
    /\ UNCHANGED <<db, version, cache, reader, held, announced>>

-----------------------------------------------------------------------------
(* Readers.                                                                *)

(* The validator is taken before anything is read.                         *)
Ask(r) ==
    /\ reader[r].pc = "idle"
    /\ Go(r, [NotReading EXCEPT !.pc = "asked", !.etag = version, !.floor = announced])
    /\ UNCHANGED <<db, version, cache, writer, held, announced>>

(* A request that carries the current validator is answered 304: the       *)
(* browser shows the body it holds.                                        *)
NotModified(h) == h.etag = version

(* GET /api/data: the records themselves, not cached by the server.        *)
ReadRecords(r) ==
    /\ reader[r].pc = "asked"
    /\ Go(r, [reader[r] EXCEPT !.pc = "answering", !.version = reader[r].etag,
                               !.content = db])
    /\ UNCHANGED <<db, version, cache, writer, held, announced>>

(* snapshot: data_etag, then the first SELECT of the transaction.          *)
TakeVersion(r) ==
    /\ reader[r].pc = "asked"
    /\ Go(r, [reader[r] EXCEPT !.pc = "versioned", !.version = version])
    /\ UNCHANGED <<db, version, cache, writer, held, announced>>

OpenSnapshot(r) ==
    /\ reader[r].pc = "versioned"
    /\ Go(r, [reader[r] EXCEPT !.pc = "opened", !.content = db])
    /\ UNCHANGED <<db, version, cache, writer, held, announced>>

(* statscache.get: a cached model is used whatever its version.            *)
LookUp(r) ==
    /\ reader[r].pc = "opened"
    /\ Go(r, IF cache # NoModel
               THEN [reader[r] EXCEPT !.pc = "answering", !.version = cache.version,
                                      !.content = cache.content]
               ELSE [reader[r] EXCEPT !.pc = "built"])
    /\ UNCHANGED <<db, version, cache, writer, held, announced>>

(* statscache.put.                                                         *)
Put(r) ==
    /\ reader[r].pc = "built"
    /\ cache' = IF reader[r].version = version
                  THEN [version |-> reader[r].version, content |-> reader[r].content]
                  ELSE cache
    /\ Go(r, [reader[r] EXCEPT !.pc = "answering"])
    /\ UNCHANGED <<db, version, writer, held, announced>>

(* The body is sent with the validator taken at the beginning.             *)
Sent(r) ==
    /\ held' = held \cup {[etag |-> reader[r].etag, content |-> reader[r].content]}
    /\ Go(r, NotReading)
    /\ UNCHANGED <<db, version, cache, writer, announced>>

Answer(r) == reader[r].pc = "answering" /\ Sent(r)

(* history: the rows of the page are read in a transaction of their own.   *)
ReadPage(r) ==
    /\ reader[r].pc = "answering"
    /\ Go(r, [reader[r] EXCEPT !.pc = "paging", !.rows = db])
    /\ UNCHANGED <<db, version, cache, writer, held, announced>>

(* Mutant: a page is sent without asking for the version.                  *)
AnswerAnyPage(r) ==
    /\ reader[r].pc = "paging"
    /\ Sent(r)

(* ... and sent if the model's version is still current.                   *)
AnswerPage(r) ==
    /\ reader[r].pc = "paging"
    /\ reader[r].version = version
    /\ Sent(r)

StalePage(r) ==
    /\ reader[r].pc = "paging"
    /\ reader[r].version # version
    /\ Go(r, NotReading)
    /\ UNCHANGED <<db, version, cache, writer, held, announced>>

-----------------------------------------------------------------------------
(* Mutant: a version that does not name the boot.                          *)
RestartSameBoot ==
    /\ version.boot < MaxBoots
    /\ version' = [version EXCEPT !.count = 0]
    /\ cache' = NoModel
    /\ writer' = [w \in Writers |-> 0]
    /\ reader' = [r \in Readers |-> NotReading]
    /\ UNCHANGED <<db, held, announced>>

(* The process ends and starts again: its memory and its requests go, the  *)
(* database and what browsers hold stay.                                   *)
RestartServer ==
    /\ version.boot < MaxBoots
    /\ version' = [boot |-> version.boot + 1, count |-> 0]
    /\ cache' = NoModel
    /\ writer' = [w \in Writers |-> 0]
    /\ reader' = [r \in Readers |-> NotReading]
    /\ UNCHANGED <<db, held, announced>>

StatsInit ==
    /\ db = 0 /\ announced = 0
    /\ version = [boot |-> 1, count |-> 0]
    /\ cache = NoModel
    /\ writer = [w \in Writers |-> 0]
    /\ reader = [r \in Readers |-> NotReading]
    /\ held = {}

Write(w) == Commit(w) \/ Invalidate(w) \/ FailAfterCommit(w)

Serve(r) ==
    \/ Ask(r) \/ ReadRecords(r) \/ TakeVersion(r) \/ OpenSnapshot(r) \/ LookUp(r)
    \/ Put(r) \/ Answer(r) \/ ReadPage(r) \/ AnswerPage(r) \/ StalePage(r)

StatsNext ==
    \/ \E w \in Writers : Write(w)
    \/ \E r \in Readers : Serve(r)
    \/ RestartServer

StatsSpec == StatsInit /\ [][StatsNext]_statsVars

-----------------------------------------------------------------------------
TypeOK ==
    /\ db \in Nat /\ announced \in Nat
    /\ version \in Version
    /\ cache \in Model \cup {NoModel}
    /\ writer \in [Writers -> Nat]
    /\ reader \in [Readers -> Read]
    /\ held \subseteq Response

(* No computation that was overtaken by a change sits down in the cache:   *)
(* what is cached includes every change that was followed by invalidate.   *)
(* (What a writer has committed and not yet invalidated, or never will     *)
(* because it failed, may be missing.)                                     *)
CacheIsCurrent == cache # NoModel => cache.content >= announced

(* A 304 never confirms a body that misses a change announced before, also *)
(* after a restart, which counts versions from 0 again.                    *)
NotModifiedIsCurrent == \A h \in held : NotModified(h) => h.content >= announced

(* Read your writes: a read that began after a change was answered shows   *)
(* it, wherever its body comes from.                                       *)
ReadsSeeAnsweredChanges ==
    \A r \in Readers : reader[r].pc \in {"answering", "paging"} =>
                          reader[r].content >= reader[r].floor

(* A page of the history joins an index and rows of two transactions.  It  *)
(* is sent only if neither misses a change announced by then, so index and *)
(* rows differ at most in changes nobody has been told of.                 *)
PagesAreCurrent ==
    [][\A r \in Readers : AnswerPage(r) => /\ reader[r].content >= announced
                                           /\ reader[r].rows >= announced]_statsVars
=============================================================================
