------------------------------ MODULE Memory -------------------------------
(* The memory backends: the shared record store (memory/memory_common.c,   *)
(* memory/memory_hydrate.c), the markdown file that holds a snapshot of it *)
(* (memory/markdown_memory.c), the SQLite table (memory/sqlite_memory.c),  *)
(* the memory tools (tools/memory_tools.c) and the agent's own use of      *)
(* memory (runtime/agent.c).  A markdown and a SQLite memory are given the *)
(* same calls, so that what they promise can be compared; the process may  *)
(* crash, a file may be written in part, a commit may fail.                *)
EXTENDS Integers, Sequences, FiniteSets, SequencesExt

CONSTANTS
    Namespaces, Sessions, Keys,
    Contents,           \* text -> [bytes, utf8, endsComment]
    SecretKeys,         \* keys that look like the name of a secret
    ReservedKeys,
    KeyOrder,           \* the keys in the order compare_str gives them
    SearchTexts,        \* what a search may ask for, "" for no text
    Contained,          \* text -> the keys and contents it is a part of, whatever the case
    Phrased,            \* text -> those in which FTS5 finds its words as a phrase
    MaxContent, DefaultResults, ImportMax,
    Budget              \* how many calls, crashes and faults the instance sees

\* Turns are numbered up to three.
ASSUME MemoryAssumption ==
    /\ Budget \in [calls : Nat, crashes : Nat, faults : Nat, turns : 0..3]
    /\ \A key \in Keys \union {"turn-1", "turn-2", "turn-3"} : KeyOrder[key] \in Int

VARIABLES
    db,         \* the rows of memory_entries
    tx,         \* <<>>, or the rows as an open transaction sees them
    md,         \* the markdown memory: is it open, and its store
    mdFile,     \* its file: what a reader finds in it
    clock,
    turnCounter,\* agent->turn_counter
    gone,       \* <<backend, namespace, key>> whose deletion was acknowledged
    calm,       \* FALSE once a fault, or a file that cannot be read back, made the two differ
    spent

memoryVars == <<db, tx, md, mdFile, clock, turnCounter, gone, calm, spent>>

Redacted == "[REDACTED]"

----------------------------------------------------------------------------
(* Records.                                                                *)
KeyIsReserved(key) == key \in ReservedKeys
KeyLooksSecret(key) == key \in SecretKeys
RedactionStateValid(state) == state \in {"none", "redacted", "deleted"}
ValidateTextField(text, max) == text = "" \/ (Contents[text].bytes <= max /\ Contents[text].utf8)

ValidateRecord(r) ==
    /\ r.ns # "" /\ r.key # ""
    /\ ~KeyIsReserved(r.key)
    /\ r.sensitive \/ ~KeyLooksSecret(r.key)
    /\ RedactionStateValid(r.red)
    /\ ValidateTextField(r.content, MaxContent)
    /\ r.meta \in {"", "object"}

CopyEntryFromRecord(r, now) ==
    [ns |-> r.ns, session |-> r.session, category |-> r.category, key |-> r.key, content |-> r.content,
     meta |-> r.meta, super |-> r.super, red |-> r.red, score |-> r.score, imp |-> r.imp, ts |-> now]

NamespaceKeyEqual(e, ns, key) == e.ns = ns /\ e.key = key

(* The store keeps one entry for a namespace and key.                      *)
StorePut(store, r, now) ==
    {e \in store : ~NamespaceKeyEqual(e, r.ns, r.key)} \union {CopyEntryFromRecord(r, now)}

ServedAs(store, ns, key) == {e \in store : NamespaceKeyEqual(e, ns, key) /\ e.super = "" /\ e.red = "none"}
StoreGet(store, ns, key) ==
    IF ServedAs(store, ns, key) = {} THEN "not_found" ELSE (CHOOSE e \in ServedAs(store, ns, key) : TRUE).content

(* Mutant: the text is left in the entry.                                  *)
BlankKept(e, state) == [e EXCEPT !.meta = "", !.red = state]

(* An entry is blanked, not taken out.                                     *)
Blank(e, state) == [e EXCEPT !.content = Redacted, !.meta = "", !.red = state]
StoreMark(store, ns, key, state) ==
    {IF NamespaceKeyEqual(e, ns, key) THEN Blank(e, state) ELSE e : e \in store}
StoreForget(store, ns, key) == StoreMark(store, ns, key, "deleted")
StoreRedact(store, ns, key) == StoreMark(store, ns, key, "redacted")
StorePurgeNamespace(store, ns) == {e \in store : e.ns # ns}
StorePurgeSession(store, ns, session) == {e \in store : ~(e.ns = ns /\ e.session = session)}

----------------------------------------------------------------------------
(* Retrieval.  NoQuery is a call without a query.                          *)
NoQuery == [given |-> FALSE, ns |-> "", session |-> "", category |-> "", text |-> "", limit |-> 0, maxResults |-> 0,
            maxBytes |-> 0, super |-> FALSE, red |-> FALSE, del |-> FALSE]
Query(ns) == [NoQuery EXCEPT !.given = TRUE, !.ns = ns]

FiltersPass(q, e) ==
    /\ q.super \/ e.super = ""
    /\ q.red \/ e.red # "redacted"
    /\ q.del \/ e.red # "deleted"
    /\ q.ns \in {"", e.ns} /\ q.session \in {"", e.session} /\ q.category \in {"", e.category}

StrContainsCasefold(s, text) == s \in Contained[text]
QueryMatchesEntry(q, e) ==
    /\ FiltersPass(q, e)
    /\ q.text = "" \/ StrContainsCasefold(e.key, q.text) \/ StrContainsCasefold(e.content, q.text)

(* Whether a may stand before b.  The last resort, the random id, decides  *)
(* as it likes.                                                            *)
CompareStr(a, b) == KeyOrder[a] <= KeyOrder[b]
EntryCompareDesc(a, b) ==
    IF a.score # b.score THEN a.score > b.score
    ELSE IF a.imp # b.imp THEN a.imp > b.imp
    ELSE IF a.ts # b.ts THEN a.ts > b.ts ELSE CompareStr(a.key, b.key)
Sorted(entries) ==
    CHOOSE s \in SetToSeqs(entries) : \A i, j \in DOMAIN s : i < j => EntryCompareDesc(s[i], s[j])

First(s, n) == SubSeq(s, 1, IF n < Len(s) THEN n ELSE Len(s))
MetadataBytes(meta) == IF meta = "" THEN 0 ELSE 15     \* {"pinned":true}
Bytes(e) == Contents[e.content].bytes + MetadataBytes(e.meta)
(* The first entries that fit, in order; the first that does not ends the  *)
(* result.                                                                 *)
ByteLimited(entries, max) ==
    LET total[n \in 0..Len(entries)] == IF n = 0 THEN 0 ELSE total[n - 1] + Bytes(entries[n])
        fits == {n \in 0..Len(entries) : total[n] <= max}
    IN  First(entries, CHOOSE n \in fits : \A m \in fits : m <= n)

MaxResultsOf(q) ==
    IF ~q.given THEN DefaultResults ELSE IF q.maxResults > 0 THEN q.maxResults ELSE q.limit

StoreSearch(store, q) ==
    LET sorted == Sorted({e \in store : QueryMatchesEntry(q, e)})
        cut == IF q.given /\ MaxResultsOf(q) > 0 THEN First(sorted, MaxResultsOf(q)) ELSE sorted
    IN  IF q.maxBytes > 0 THEN ByteLimited(cut, q.maxBytes) ELSE cut

(* The rows of the table are selected by the same conditions in SQL, but a *)
(* text is a phrase for FTS5 to find in a key or content, and the rows it  *)
(* finds come in the order of their bm25 rank, which is any order here.    *)
FtsMatch(e, text) == e.key \in Phrased[text] \/ e.content \in Phrased[text]
SqliteMatches(q, e) == FiltersPass(q, e) /\ (q.text = "" \/ FtsMatch(e, q.text))
Ranked(rows) == CHOOSE s \in SetToSeqs(rows) : TRUE
SqliteSearchLimit(q) == MaxResultsOf(q)
ApplyTotalResultByteLimit(q, rows) == IF q.maxBytes = 0 THEN rows ELSE ByteLimited(rows, q.maxBytes)
SqliteSearch(rows, q) ==
    LET matches == {e \in rows : SqliteMatches(q, e)}
        matched == IF q.text = "" THEN Sorted(matches) ELSE Ranked(matches)
        limit == SqliteSearchLimit(q)
    IN  ApplyTotalResultByteLimit(q, IF limit = 0 THEN matched ELSE First(matched, limit))

(* Without the option for raw content an export says of every live record  *)
(* only that it is there.                                                  *)
EntryJson(e, raw) ==
    [ns |-> e.ns, session |-> e.session, category |-> e.category, key |-> e.key, super |-> e.super,
     red |-> e.red, content |-> IF raw \/ e.red # "none" THEN e.content ELSE Redacted,
     meta |-> IF raw \/ e.red # "none" THEN e.meta ELSE "object"]

SnapshotOf(found, raw) == [i \in DOMAIN found |-> EntryJson(found[i], raw)]
ExportSnapshot(store, q, raw) == SnapshotOf(StoreSearch(store, q), raw)
SqliteExportSnapshot(rows, q, raw) == SnapshotOf(SqliteSearch(rows, q), raw)

FindDuplicate(store, ns, content) ==
    {e \in {StoreSearch(store, Query(ns))[i] : i \in DOMAIN StoreSearch(store, Query(ns))} : e.content = content}

----------------------------------------------------------------------------
(* Snapshots.  Score, importance and time are not in the text: a record    *)
(* read back has none of the first two and is as old as its import.        *)
HydrateRecord(json, allowSecrets) ==
    [ns |-> json.ns, session |-> json.session, category |-> json.category, key |-> json.key,
     content |-> json.content, meta |-> json.meta, super |-> json.super, red |-> json.red,
     score |-> 0, imp |-> 0, sensitive |-> allowSecrets]

(* sc_memory_store_import_snapshot puts one record after the other and     *)
(* stops at the first that is refused.                                     *)
ImportInto(store, snapshot, allowSecrets, now) ==
    LET record(i) == HydrateRecord(snapshot[i], allowSecrets)
        taken == {i \in DOMAIN snapshot : \A j \in 1..i : ValidateRecord(record(j))}
        last == {i \in taken : \A j \in taken : j > i => ~NamespaceKeyEqual(record(i), record(j).ns, record(j).key)}
        kept == {e \in store : \A i \in taken : ~NamespaceKeyEqual(e, record(i).ns, record(i).key)}
    IN  IF Len(snapshot) > ImportMax THEN [ok |-> FALSE, store |-> store]
        ELSE [ok |-> taken = DOMAIN snapshot, store |-> kept \union {CopyEntryFromRecord(record(i), now) : i \in last}]

MarkdownSnapshot(store) ==
    ExportSnapshot(store, [Query("") EXCEPT !.red = TRUE, !.del = TRUE], TRUE)

(* A text that holds the end of a comment ends the snapshot's comment, and *)
(* what is left of it does not parse.                                      *)
FindSnapshotComment(file) == file.has = "snapshot"
SnapshotParses(snapshot) == \A i \in DOMAIN snapshot : ~Contents[snapshot[i].content].endsComment

(* How far a write got: nothing, the first bytes of the title, the title,  *)
(* or enough of the text.                                                  *)
FileHolding(store) == [has |-> "snapshot", snap |-> MarkdownSnapshot(store)]
TornFile(how) == [has |-> how, snap |-> <<>>]
RewriteOutcomes == {"ok", "open_failed", "empty", "stub", "title", "cut"}

MarkdownRewrite(store, outcome) ==
    CASE outcome \in {"ok", "cut"} -> FileHolding(store)
      [] outcome = "open_failed" -> mdFile
      [] OTHER -> TornFile(outcome)

(* markdown_load: a file that is missing, empty or has only its title      *)
(* makes an empty memory; any other without a snapshot is refused.         *)
MarkdownLoad(file) ==
    IF FindSnapshotComment(file)
    THEN LET r == ImportInto({}, file.snap, TRUE, clock)
         IN  [open |-> SnapshotParses(file.snap) /\ r.ok, store |-> IF SnapshotParses(file.snap) THEN r.store ELSE {},
              file |-> file]
    ELSE IF file.has \in {"absent", "empty", "title"}
    THEN [open |-> TRUE, store |-> {}, file |-> FileHolding({})]
    ELSE [open |-> FALSE, store |-> {}, file |-> file]

----------------------------------------------------------------------------
(* A write of the SQLite memory.  A commit that fails leaves its           *)
(* transaction open, the next write fails at its BEGIN and rolls it back.  *)
View == IF tx = <<>> THEN db ELSE tx[1]
SqliteOutcomes == IF tx = <<>> THEN {"ok", "statement_failed", "commit_failed"} ELSE {"begin_failed"}

BeginTransaction == tx = <<>>
CommitTransaction(rows) == db' = rows /\ tx' = <<>>
RollbackTransaction == UNCHANGED db /\ tx' = <<>>

SqliteWrite(rows, outcome) ==
    CASE outcome = "ok" -> BeginTransaction /\ CommitTransaction(rows)
      [] outcome = "commit_failed" -> BeginTransaction /\ UNCHANGED db /\ tx' = <<rows>>
      [] OTHER -> RollbackTransaction

SqlitePut(r) == StorePut(View, r, clock)
SqliteGet(ns, key) == StoreGet(View, ns, key)
SqliteForget(ns, key) == StoreMark(View, ns, key, "deleted")
SqliteRedact(ns, key) == StoreMark(View, ns, key, "redacted")
SqlitePurgeNamespace(ns) == StorePurgeNamespace(View, ns)
SqlitePurgeSession(ns, session) == StorePurgeSession(View, ns, session)

MarkdownWrite(store, outcome) ==
    IF md.open THEN md' = [md EXCEPT !.store = store] /\ mdFile' = MarkdownRewrite(store, outcome)
    ELSE UNCHANGED <<md, mdFile>>

(* One call to both memories.  rows and store are what it makes of them,   *)
(* dead and alive the namespaces and keys it deletes and writes.           *)
Call(rows, store, dead, alive) ==
    \E so \in SqliteOutcomes, mo \in (IF md.open THEN RewriteOutcomes ELSE {"ok"}) :
        LET faults == Cardinality({o \in {so} : o \notin {"ok", "begin_failed"}})
                      + Cardinality({o \in {mo} : o # "ok"})
            acked == (IF so = "ok" THEN {"sqlite"} ELSE {}) \union (IF mo = "ok" /\ md.open THEN {"markdown"} ELSE {})
        IN  /\ spent.calls < Budget.calls /\ spent.faults + faults <= Budget.faults
            /\ SqliteWrite(rows, so) /\ MarkdownWrite(store, mo)
            /\ gone' = {g \in gone : <<g[2], g[3]>> \notin alive}
                       \union {<<b, d[1], d[2]>> : b \in acked, d \in dead}
            /\ calm' = (calm /\ so = "ok" /\ mo = "ok")
            /\ spent' = [spent EXCEPT !.calls = @ + 1, !.faults = @ + faults]
            /\ clock' = clock + 1

(* A record that is refused changes neither store; sqlite_put still ends   *)
(* in a rollback, which takes back a transaction left open.                *)
PutRefused == RollbackTransaction /\ UNCHANGED <<md, mdFile, clock, gone, calm, spent>>

Put(r) ==
    \/ ValidateRecord(r) /\ Call(SqlitePut(r), StorePut(md.store, r, clock), {}, {<<r.ns, r.key>>})
    \/ ~ValidateRecord(r) /\ PutRefused

----------------------------------------------------------------------------
(* The tools.  allowed: the call is not cancelled and passes the policy.   *)
(* A memory that is not "none" is configured.                              *)
ToolRecord(ns, key, content) ==
    [ns |-> ns, session |-> "", category |-> "", key |-> key, content |-> content, meta |-> "",
     super |-> "", red |-> "none", score |-> 0, imp |-> 0, sensitive |-> FALSE]

InvokeStore(ns, key, content) == Put(ToolRecord(ns, key, content)) /\ UNCHANGED turnCounter

InvokePin(ns, key, content) ==
    LET r == [ToolRecord(ns, key, content) EXCEPT !.category = "pinned", !.meta = "object"]
    IN  Put(r) /\ UNCHANGED turnCounter

InvokeForget(ns, key) ==
    /\ Call(SqliteForget(ns, key), StoreForget(md.store, ns, key), {<<ns, key>>}, {})
    /\ UNCHANGED turnCounter

InvokePurge(ns) ==
    /\ Call(SqlitePurgeNamespace(ns), StorePurgeNamespace(md.store, ns), {<<ns, k>> : k \in Keys}, {})
    /\ UNCHANGED turnCounter

InvokeRecall(ns, key) == <<SqliteGet(ns, key), StoreGet(md.store, ns, key)>>

(* The limit is always the tool's own: an argument is looked at only if it *)
(* is a string, and then it is no number.                                  *)
ToolLimit == 10
SearchQuery(ns, text) == [Query(ns) EXCEPT !.text = text, !.limit = ToolLimit]
InvokeSearch(ns, text) ==
    <<SqliteExportSnapshot(View, SearchQuery(ns, text), FALSE), ExportSnapshot(md.store, SearchQuery(ns, text), FALSE)>>
InvokeExport(ns) == <<SqliteExportSnapshot(View, Query(ns), FALSE), ExportSnapshot(md.store, Query(ns), FALSE)>>

----------------------------------------------------------------------------
(* The agent.  A turn is stored under the number the agent's counter gives *)
(* it, which starts at zero with the process.                              *)
TurnKey(n) == IF n = 1 THEN "turn-1" ELSE IF n = 2 THEN "turn-2" ELSE "turn-3"

PersistTurn(ns, session, content) ==
    LET key == TurnKey(turnCounter + 1)
        r == [ToolRecord(ns, key, content) EXCEPT !.session = session, !.category = "turn", !.score = 1, !.imp = 1]
    IN  turnCounter < Budget.turns /\ turnCounter' = turnCounter + 1 /\ Put(r)

(* What a turn is told from memory: the records its whole input finds.     *)
LoadMemoryContext(ns, session, input, max) ==
    SelectSeq(SqliteSearch(View, [Query(ns) EXCEPT !.session = session, !.text = input, !.limit = max]),
              LAMBDA e : ~KeyIsReserved(e.key))

----------------------------------------------------------------------------
(* The library's other calls.                                              *)
Redact(ns, key) ==
    /\ Call(SqliteRedact(ns, key), StoreRedact(md.store, ns, key), {<<ns, key>>}, {})
    /\ UNCHANGED turnCounter

PurgeSession(ns, session) ==
    /\ Call(SqlitePurgeSession(ns, session), StorePurgeSession(md.store, ns, session), {}, {})
    /\ UNCHANGED turnCounter

(* A record replaced by another.                                           *)
Supersede(ns, key, content) ==
    /\ \E e \in View : NamespaceKeyEqual(e, ns, key) /\ e.red = "none"
    /\ LET r == [ToolRecord(ns, key, content) EXCEPT !.super = "other"]
       IN  Put(r)
    /\ UNCHANGED turnCounter

----------------------------------------------------------------------------
(* The process ends and is started again: the transaction is gone, the     *)
(* markdown memory is what its file says, the agent counts from zero.      *)
SqliteOpen == db' = db /\ tx' = <<>>

MarkdownOpen ==
    LET loaded == MarkdownLoad(mdFile)
    IN  md' = [open |-> loaded.open, store |-> loaded.store] /\ mdFile' = loaded.file

MemoryRestart ==
    /\ spent.crashes < Budget.crashes
    /\ spent' = [spent EXCEPT !.crashes = @ + 1]
    /\ SqliteOpen /\ MarkdownOpen
    /\ turnCounter' = 0
    /\ calm' = (calm /\ md'.open)
    /\ UNCHANGED <<clock, gone>>

MemoryInit ==
    /\ db = {} /\ tx = <<>>
    /\ md = [open |-> TRUE, store |-> {}] /\ mdFile = FileHolding({})
    /\ clock = 1 /\ turnCounter = 0
    /\ gone = {} /\ calm = TRUE
    /\ spent = [calls |-> 0, crashes |-> 0, faults |-> 0]

MemoryNext ==
    \/ \E ns \in Namespaces :
          \/ \E key \in Keys, content \in DOMAIN Contents \ {Redacted} :
                InvokeStore(ns, key, content) \/ InvokePin(ns, key, content) \/ Supersede(ns, key, content)
          \/ \E key \in Keys : InvokeForget(ns, key) \/ Redact(ns, key)
          \/ \E s \in Sessions, content \in DOMAIN Contents \ {Redacted} : PersistTurn(ns, s, content)
          \/ \E s \in Sessions : PurgeSession(ns, s)
          \/ InvokePurge(ns)
    \/ MemoryRestart

MemorySpec == MemoryInit /\ [][MemoryNext]_memoryVars

----------------------------------------------------------------------------
(* A deletion or redaction that was acknowledged is final in either        *)
(* backend: until the key is written again its old text is neither served  *)
(* nor left in the table or in the file, through restarts, failed commits  *)
(* and torn writes (sc_memory_store_forget, markdown_rewrite,              *)
(* sqlite_forget).                                                         *)
ForgottenStaysForgotten ==
    \A g \in gone :
        LET blank(e) == e.ns = g[2] /\ e.key = g[3] => e.content = Redacted /\ e.red # "none"
        IN  IF g[1] = "sqlite" THEN \A e \in db \union View : blank(e)
            ELSE /\ \A e \in md.store : blank(e)
                 /\ \A i \in DOMAIN mdFile.snap : blank(mdFile.snap[i])

KeysIn(snapshot) == {e.key : e \in ToSet(snapshot)}

(* A text both backends read alike: FTS5 looks for words, the store for    *)
(* characters, and for other texts a search finds other records.           *)
ReadAlike(text) == text = "" \/ Contained[text] = Phrased[text]

(* The two backends hold the same memory: as long as no write failed and   *)
(* the file could be read back, every key has the same value in both,      *)
(* across restarts, and both export the same records; a search for         *)
(* whatever text finds in one backend only what the other exports too, so  *)
(* never a record that was deleted, redacted or replaced, and for a text   *)
(* both read alike the two find the same, unless the limit cuts.           *)
(* (docs/rules/MEMORY_BACKEND_RULES.md: "Preserve deletion and redaction   *)
(* semantics across backends.", "Avoid returning deleted or redacted       *)
(* records.")                                                              *)
BackendsAgree ==
    calm => \A ns \in Namespaces :
        LET export == InvokeExport(ns)
            inTable == KeysIn(export[1])
            inStore == KeysIn(export[2])
        IN
        /\ \A key \in Keys \union {TurnKey(n) : n \in 1..Budget.turns} :
              InvokeRecall(ns, key)[1] = InvokeRecall(ns, key)[2]
        /\ inTable = inStore
        /\ \A text \in SearchTexts :
              LET found == InvokeSearch(ns, text)
                  foundTable == KeysIn(found[1])
                  foundStore == KeysIn(found[2])
              IN
              /\ foundTable \subseteq inStore /\ foundStore \subseteq inTable
              /\ ReadAlike(text) /\ Len(found[1]) < ToolLimit /\ Len(found[2]) < ToolLimit
                    => foundTable = foundStore

(* The memory forgets what it was told to and is one store to its users,   *)
(* whichever backend holds it.                                             *)
MemorySound == ForgottenStaysForgotten /\ BackendsAgree
=============================================================================
