------------------------------- MODULE Journal -------------------------------
(***************************************************************************)
(* accounting/journal-entries.service.ts: double-entry journal entries and *)
(* the trial balance.  An entry and its lines are one nested insert; an    *)
(* entry counts once it is posted.  The trial balance groups the lines by  *)
(* account in one statement, and looks the accounts up in the next.        *)
(* Amounts are integers: DTO and column both keep four decimals.           *)
(***************************************************************************)
EXTENDS MasterData, FiniteSetsExt

VARIABLES
  entries,  \* the table journal_entries with its lines, by name
  draft,    \* per request: the lines asked for, and the entry's number or name
  trial     \* per request: the trial balance so far

journalVars == <<entries, draft, trial>>

\* The entry there was is named 0, the others after their request.
EntryNames == {0} \cup Req

Line == [account : Ids, debit : Nat, credit : Nat]
Entry == [number : Nat, lines : SUBSET Line, status : {"DRAFT", "POSTED"}]

NoDraft == [lines |-> {}, number |-> 0, entry |-> 0]
NoTrial == [accounts |-> {}, debit |-> 0, credit |-> 0, named |-> {}]

OldLines == {[account |-> <<"account", 1>>, debit |-> 1, credit |-> 0],
             [account |-> <<"account", 1>>, debit |-> 0, credit |-> 1]}

JournalInit ==
  /\ IF {<<"account", 1>>} \subseteq OldRows
       THEN \E status \in {"DRAFT", "POSTED"} :
              entries = [e \in {0} |-> [number |-> 1, lines |-> OldLines,
                                       status |-> status]]
       ELSE entries = [e \in {} |-> 0]
  /\ draft = [r \in Req |-> NoDraft]
  /\ trial = [r \in Req |-> NoTrial]

AccountsOf(lines) == {l.account : l \in lines}

\* What MasterData's `cited` holds at first.
JournalCites == UNION {AccountsOf(entries[e].lines) : e \in DOMAIN entries}

-----------------------------------------------------------------------------
Debits(lines) == MapThenSumSet(LAMBDA l : l.debit, lines)
Credits(lines) == MapThenSumSet(LAMBDA l : l.credit, lines)

\* Mutant: the lines are looked at one by one only.
BalancedByLine(lines) ==
  \A l \in lines : ~(l.debit > 0 /\ l.credit > 0) /\ ~(l.debit = 0 /\ l.credit = 0)

\* create's loop over the lines, and the comparison of the totals.
Balanced(lines) ==
  /\ \A l \in lines : ~(l.debit > 0 /\ l.credit > 0) /\ ~(l.debit = 0 /\ l.credit = 0)
  /\ Debits(lines) = Credits(lines)

\* Entries of two lines, each in the amounts 0 and those of Amounts.
LineChoices ==
  LET Some == [account : {id \in DOMAIN rows : id[1] = "account"},
               debit : Amounts \cup {0}, credit : Amounts \cup {0}]
  IN {{l, m} : l, m \in Some}

\* An entry that is not balanced is refused before anything is awaited.
StartEntry(r) ==
  \/ \E lines \in LineChoices :
       /\ Routed(<<"create", "journal_entry">>) /\ Balanced(lines)
       /\ Begin(r, <<"create", "journal_entry">>, "find accounts")
       /\ draft' = [draft EXCEPT ![r].lines = lines]
       /\ UNCHANGED <<masterVars, entries, trial>>
  \/ /\ Routed(<<"create", "journal_entry">>)
     /\ \E lines \in LineChoices : ~Balanced(lines)
     /\ Begin(r, <<"create", "journal_entry">>, "refused")
     /\ UNCHANGED <<masterVars, journalVars>>

StartPost(r) ==
  \E e \in DOMAIN entries :
    /\ Routed(<<"post", "journal_entry">>)
    /\ Begin(r, <<"post", "journal_entry">>, "find entry")
    /\ draft' = [draft EXCEPT ![r].entry = e]
    /\ UNCHANGED <<masterVars, entries, trial>>

StartTrial(r) ==
  /\ Routed(<<"trial", "journal_entry">>)
  /\ Begin(r, <<"trial", "journal_entry">>, "group")
  /\ UNCHANGED <<masterVars, journalVars>>

-----------------------------------------------------------------------------
Lines(r) == draft[r].lines

FindAccounts(r) ==
  /\ pc[r] = "find accounts"
  /\ IF AccountsOf(Lines(r)) \subseteq DOMAIN rows THEN Goto(r, "count entries")
                                                   ELSE Answer(r, FALSE)
  /\ UNCHANGED <<masterVars, journalVars>>

CountEntries(r) ==
  /\ pc[r] = "count entries"
  /\ draft' = [draft EXCEPT ![r].number = Cardinality(DOMAIN entries) + 1]
  /\ Goto(r, "insert entry")
  /\ UNCHANGED <<masterVars, entries, trial>>

InsertEntry(r) ==
  /\ pc[r] = "insert entry"
  /\ LET fine == /\ AccountsOf(Lines(r)) \subseteq DOMAIN rows
                 /\ \A e \in DOMAIN entries : entries[e].number # draft[r].number
     IN /\ IF fine
             THEN /\ entries' = [e \in DOMAIN entries \cup {r} |->
                                   IF e = r THEN [number |-> draft[r].number,
                                                  lines |-> Lines(r), status |-> "DRAFT"]
                                            ELSE entries[e]]
                  /\ cited' = cited \cup AccountsOf(Lines(r))
             ELSE UNCHANGED <<entries, cited>>
        /\ Answer(r, fine)
  /\ UNCHANGED <<rows, mains, form, left, held, draft, trial>>

\* Only a draft is posted, says the status that was read.
FindEntry(r) ==
  /\ pc[r] = "find entry"
  /\ IF entries[draft[r].entry].status = "DRAFT" THEN Goto(r, "post") ELSE Answer(r, FALSE)
  /\ UNCHANGED <<masterVars, journalVars>>

PostEntry(r) ==
  /\ pc[r] = "post"
  /\ entries' = [entries EXCEPT ![draft[r].entry].status = "POSTED"]
  /\ Goto(r, "reread")
  /\ UNCHANGED <<masterVars, draft, trial>>

RereadEntry(r) ==
  pc[r] = "reread" /\ Answer(r, TRUE) /\ UNCHANGED <<masterVars, journalVars>>

Posted == {e \in DOMAIN entries : entries[e].status = "POSTED"}

\* groupBy: one statement over the lines of the posted entries.
GroupLines(r) ==
  /\ pc[r] = "group"
  /\ trial' = [trial EXCEPT ![r] =
       [accounts |-> UNION {AccountsOf(entries[e].lines) : e \in Posted},
        debit    |-> MapThenSumSet(LAMBDA e : Debits(entries[e].lines), Posted),
        credit   |-> MapThenSumSet(LAMBDA e : Credits(entries[e].lines), Posted),
        named    |-> {}]]
  /\ Goto(r, "name")
  /\ UNCHANGED <<masterVars, entries, draft>>

\* The code and name of each account; one that is not found is left blank.
NameAccounts(r) ==
  /\ pc[r] = "name"
  /\ trial' = [trial EXCEPT ![r].named = trial[r].accounts \cap DOMAIN rows]
  /\ Answer(r, TRUE)
  /\ UNCHANGED <<masterVars, entries, draft>>

JournalStart(r) ==
  Idle(r) /\ (StartEntry(r) \/ StartPost(r) \/ StartTrial(r))

JournalWork(r) ==
  \/ FindAccounts(r) \/ CountEntries(r) \/ InsertEntry(r)
  \/ FindEntry(r) \/ PostEntry(r) \/ RereadEntry(r)
  \/ GroupLines(r) \/ NameAccounts(r)

-----------------------------------------------------------------------------
JournalTypeOK ==
  /\ DOMAIN entries \subseteq EntryNames
  /\ \A e \in DOMAIN entries : entries[e] \in Entry
  /\ draft \in [Req -> [lines : SUBSET Line, number : Nat, entry : EntryNames]]
  /\ trial \in [Req -> [accounts : SUBSET Ids, debit : Nat, credit : Nat,
                        named : SUBSET Ids]]

\* The trial balance of any moment balances, whatever is entered and posted meanwhile.
TrialBalances == \A r \in Req : trial[r].debit = trial[r].credit

\* Every account the trial balance groups by is found by name a statement later,
\* though accounts are removed meanwhile: none of its rows is blank.
BalancesAreNamed ==
  \A r \in Req : Does(r, "trial") /\ pc[r] = "ok" => trial[r].named = trial[r].accounts
=============================================================================
