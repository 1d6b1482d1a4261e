------------------------------ MODULE Monitor ------------------------------
(***************************************************************************)
(* monitor: the terminal dashboard of an L2 sequencer.  An actor with one  *)
(* mailbox handles ticks, which refresh eight widgets one after another    *)
(* from the node's stores and from L1, and the keys of the operator.       *)
(*                                                                         *)
(* L1 and L2 are outside this repository and are one counter, for no       *)
(* widget relates the one to the other: block b of L2 is batch b and holds *)
(* withdrawal b, and block b of L1 commits it and holds privileged message *)
(* b.  With the next block its batch is verified, its message is on L2 and *)
(* its withdrawal is claimed.  A row is the number of what it shows and    *)
(* the status it shows of it.                                              *)
(***************************************************************************)
EXTENDS Integers, Sequences, SequencesExt, FiniteSets

CONSTANTS
    Window,        \* rows of a table; 50 in every widget
    Chunk,         \* blocks of one eth_getLogs request; 50 in the code
    MaxBlock,      \* blocks of the two chains that are looked at
    MaxFailures,   \* requests that fail
    MaxEvents      \* keys that are pressed

ASSUME MonitorAssumption ==
    /\ Window \in Nat \ {0} /\ Chunk \in Nat \ {0}
    /\ MaxBlock \in Nat /\ MaxFailures \in Nat /\ MaxEvents \in Nat

VARIABLES
    chain,     \* the outside: the head of the chains
    phase,     \* "starting", "running", "stopped", or "failed" to start
    mailbox,   \* messages of the actor that wait, "tick" or a key
    timer,     \* a tick is scheduled
    stage,     \* the widget the tick under way refreshes next; 0 when none is
    tables,    \* rows, progress and cursor of every widget
    ui,        \* tab, overview_selected_widget, selected flags, mouse, should_quit
    events,    \* keys pressed so far
    failures   \* requests that failed so far

vars == <<chain, phase, mailbox, timer, stage, tables, ui, events, failures>>

Larger(x, y) == IF x > y THEN x ELSE y
Smaller(x, y) == IF x < y THEN x ELSE y

Ascending(from, to) == [i \in 1 .. to - from + 1 |-> from + i - 1]
Descending(to, from) == Reverse(Ascending(from, to))

Keys == {"Up", "Down", "w", "s", "Q", "m", "Tab"}

\* The widgets in the order on_tick refreshes them.
Widgets == <<"node_status", "global_chain_status", "mempool", "batches", "blocks",
             "l1_to_l2_messages", "l2_to_l1_messages", "rich_accounts">>

\* selected_table: what Up and Down go through on the Overview tab.
Scrollable == <<"batches", "blocks", "mempool", "l1_to_l2_messages", "l2_to_l1_messages">>

-----------------------------------------------------------------------------
(* The chains.                                                             *)

\* A block is built and committed.
Advance ==
    /\ phase \in {"starting", "running"} /\ chain < MaxBlock
    /\ chain' = chain + 1
    /\ UNCHANGED <<phase, mailbox, timer, stage, tables, ui, events, failures>>

-----------------------------------------------------------------------------
(* Statuses and rows.  A status is a function of what the row is about.    *)

Numbers == 1 .. MaxBlock

\* L1ToL2MessageStatus::for_tx: a message that is not on L2 is in the list of
\* the bridge, from which it goes only afterwards.
L1ToL2Status == [m \in Numbers |-> IF m < chain THEN "ProcessedOnL2" ELSE "Pending"]

\* L2ToL1MessageStatus::for_tx; a withdrawal is claimed when it is verified.
L2ToL1Status == [w \in Numbers |-> IF w < chain THEN "Claimed" ELSE "Initiated"]

\* process_batch: both hashes are there once the batch is verified.
BatchStatus == [b \in Numbers |-> IF b < chain THEN "Verified" ELSE "Committed"]

Rows(numbers, status) ==
    [i \in DOMAIN numbers |-> [number |-> numbers[i], status |-> status[numbers[i]]]]

Refreshed(rows, status) ==
    [i \in DOMAIN rows |-> [rows[i] EXCEPT !.status = status[rows[i].number]]]

\* BatchesTable.refresh_items reads only the batches that miss a hash.
RefreshedBatches(rows) ==
    [i \in DOMAIN rows |->
        IF rows[i].status = "Verified" THEN rows[i]
        ELSE [rows[i] EXCEPT !.status = BatchStatus[rows[i].number]]]

\* drain(.. new.len() - 50): the last rows of what was fetched.
Latest(new) == SubSeq(new, Larger(0, Len(new) - Window) + 1, Len(new))

\* drain(.. len - (50 - n)): makes room for n rows, at the front of the table.
Drained(items, n) ==
    SubSeq(items, Larger(0, Len(items) - (Window - n)) + 1, Len(items))

\* BatchesTable truncates: it makes room at the end.  (Drained is its mutant.)
Truncated(items, n) == SubSeq(items, 1, Smaller(Len(items), Window - n))

-----------------------------------------------------------------------------
(* Ticks.  A request may fail at any of the awaits: the ? ends the tick,   *)
(* and the widget stays as it is then.  What was fetched is gone while the *)
(* progress, in last, is kept.                                             *)

Fails == /\ failures < MaxFailures
         /\ failures' = failures + 1

\* What handle_tick does when on_tick is over, well or not: draw, and schedule
\* the next tick.  The first tick runs in new: there is no monitor if it fails.
TickEnds(ok) ==
    /\ stage' = 0
    /\ IF phase = "starting"
       THEN phase' = (IF ok THEN "running" ELSE "failed") /\ timer' = ok
       ELSE timer' = TRUE /\ UNCHANGED phase

\* The widget of this stage becomes table, and its on_tick returns Ok or Err.
Refresh(w, table, ok) ==
    /\ stage # 0 /\ Widgets[stage] = w
    /\ tables' = [tables EXCEPT ![w] = table]
    /\ IF ok THEN UNCHANGED failures ELSE Fails
    /\ IF ok /\ stage < Len(Widgets)
       THEN stage' = stage + 1 /\ UNCHANGED <<phase, timer>>
       ELSE TickEnds(ok)
    /\ UNCHANGED <<chain, mailbox, ui, events>>

\* The three widgets that are read anew: a failure leaves the old items.
Reread(w, items) ==
    \/ Refresh(w, [tables[w] EXCEPT !.items = items], TRUE)
    \/ Refresh(w, tables[w], FALSE)

\* What these two show is one reading of the node, and no property is about it.
NodeStatusTick == Reread("node_status", <<>>)

ChainStatusTick == Reread("global_chain_status", <<>>)

\* The transactions of the blocks to come, sorted.
MempoolTick ==
    Reread("mempool", Rows(Ascending(chain + 1, MaxBlock), [t \in Numbers |-> "pending"]))

\* fetch_new_items starts at most a window below the last batch and goes up;
\* refresh_items runs between the truncation and the new rows.
BatchesTick ==
    LET table == tables["batches"]
        from == Larger(table.last, chain - Window)
        new == Descending(chain, from + 1)
        kept == Truncated(table.items, Len(new))
    IN \/ Refresh("batches", table, FALSE)
       \/ \E last \in from .. chain :
             Refresh("batches", [table EXCEPT !.last = last], FALSE)
       \/ Refresh("batches", [table EXCEPT !.last = chain, !.items = kept], FALSE)
       \/ Refresh("batches", [table EXCEPT !.last = chain,
                    !.items = Rows(new, BatchStatus) \o RefreshedBatches(kept)], TRUE)

\* The tables that are read from their last block up.  The drain takes the rows
\* that are over from the front, where rotate_right puts the new ones.  stops
\* are the blocks after which a request of the fetch may fail.
AscendingTick(w, head, stops, status) ==
    LET table == tables[w]
        new == Latest(Ascending(table.last + 1, head))
        kept == Drained(table.items, Len(new))
    IN \/ \E last \in stops : Refresh(w, [table EXCEPT !.last = last], FALSE)
       \/ Refresh(w, [table EXCEPT !.last = head,
                       !.items = Rows(new, status) \o Refreshed(kept, status)], TRUE)

\* get_blocks reads a block at a time.
BlocksTick ==
    AscendingTick("blocks", chain, tables["blocks"].last .. chain, [b \in Numbers |-> ""])

\* get_logs reads a chunk at a time, and then the statuses are asked for.
ChunkEnds(last, head) ==
    {b \in last .. head : b = head \/ (b - last) % Chunk = 0}

\* A status that cannot be read also ends the tick after the drain.
MessagesTick(w, head, status) ==
    \/ AscendingTick(w, head, ChunkEnds(tables[w].last, head), status)
    \/ LET kept == Drained(tables[w].items, Smaller(head - tables[w].last, Window))
       IN \E read \in 0 .. Len(kept) - 1 :
            Refresh(w, [tables[w] EXCEPT !.last = head,
                         !.items = Refreshed(SubSeq(kept, 1, read), status)
                                     \o SubSeq(kept, read + 1, Len(kept))], FALSE)

L1ToL2MessagesTick == MessagesTick("l1_to_l2_messages", chain, L1ToL2Status)
L2ToL1MessagesTick == MessagesTick("l2_to_l1_messages", chain, L2ToL1Status)

\* The accounts stay; which block their balances are of is not modelled.
RichAccountsTick == Reread("rich_accounts", tables["rich_accounts"].items)

Tick == \/ NodeStatusTick \/ ChainStatusTick \/ MempoolTick \/ BatchesTick
        \/ BlocksTick \/ L1ToL2MessagesTick \/ L2ToL1MessagesTick \/ RichAccountsTick

-----------------------------------------------------------------------------
(* The actor.                                                              *)

\* Mutant: the ticks come at an interval, send_interval.
TimerFires_interval ==
    /\ phase = "running"
    /\ mailbox' = Append(mailbox, "tick")
    /\ UNCHANGED <<chain, phase, timer, stage, tables, ui, events, failures>>

TimerFires ==
    /\ phase = "running" /\ timer
    /\ timer' = FALSE
    /\ mailbox' = Append(mailbox, "tick")
    /\ UNCHANGED <<chain, phase, stage, tables, ui, events, failures>>

KeyPressed(key) ==
    /\ phase = "running" /\ events < MaxEvents
    /\ events' = events + 1
    /\ mailbox' = Append(mailbox, key)
    /\ UNCHANGED <<chain, phase, timer, stage, tables, ui, failures>>

\* A message is taken when the handler of the one before has returned.
Takes(message) ==
    /\ phase = "running" /\ stage = 0
    /\ mailbox # <<>> /\ Head(mailbox) = message
    /\ mailbox' = Tail(mailbox)

handle_tick ==
    /\ Takes("tick")
    /\ stage' = 1
    /\ UNCHANGED <<chain, phase, timer, tables, ui, events, failures>>

Selected == Scrollable[ui.selected_widget + 1]

\* Mutant: the table that was selected keeps its border.
SelectTable_both(step) ==
    LET widget == (ui.selected_widget + step) % Len(Scrollable)
    IN /\ ui' = [ui EXCEPT !.selected_widget = widget]
       /\ tables' = [tables EXCEPT ![Scrollable[widget + 1]].selected = TRUE]

\* Up and Down: another table is the selected one.
SelectTable(step) ==
    LET widget == (ui.selected_widget + step) % Len(Scrollable)
    IN /\ ui' = [ui EXCEPT !.selected_widget = widget]
       /\ tables' = [tables EXCEPT ![Selected].selected = FALSE,
                                   ![Scrollable[widget + 1]].selected = TRUE]

\* The cursor is zero when nothing was scrolled yet, the row otherwise, from one.
ScrollUp(w) ==
    /\ tables' = [tables EXCEPT ![w].cursor = Larger(1, @ - 1)]
    /\ UNCHANGED ui

ScrollDown(w) ==
    LET row == Larger(1, tables[w].cursor) + 1
    IN /\ tables' = [tables EXCEPT ![w].cursor =
                        Smaller(row, Larger(1, Len(tables[w].items)))]
       /\ UNCHANGED ui

NextTab == [Overview |-> "Logs", Logs |-> "RichAccounts", RichAccounts |-> "Overview"]

\* The table w and s scroll: none on the Logs tab.
ScrolledTable ==
    IF ui.tab = "Overview" THEN Selected ELSE "rich_accounts"

on_key_event(key) ==
    \/ /\ key \in {"Up", "Down"} /\ ui.tab = "Overview"
       /\ SelectTable(IF key = "Down" THEN 1 ELSE Len(Scrollable) - 1)
    \/ /\ key = "w" /\ ui.tab # "Logs"
       /\ ScrollUp(ScrolledTable)
    \/ /\ key = "s" /\ ui.tab # "Logs"
       /\ ScrollDown(ScrolledTable)
    \/ /\ key = "Q" /\ ui' = [ui EXCEPT !.should_quit = TRUE] /\ UNCHANGED tables
    \/ /\ key = "m"
       /\ ui' = [ui EXCEPT !.mouse_captured = ~@] /\ UNCHANGED tables
    \/ /\ key = "Tab"
       /\ ui' = [ui EXCEPT !.tab = NextTab[@]] /\ UNCHANGED tables
    \/ /\ \/ key \in {"Up", "Down"} /\ ui.tab # "Overview"
          \/ key \in {"w", "s"} /\ ui.tab = "Logs"
       /\ UNCHANGED <<ui, tables>>

\* ctx.stop after a Q: stopped restores the terminal and cancels the sequencer.
handle_event ==
    \E key \in Keys :
        /\ Takes(key)
        /\ on_key_event(key)
        /\ phase' = IF ui'.should_quit THEN "stopped" ELSE phase
        /\ UNCHANGED <<chain, timer, stage, events, failures>>

-----------------------------------------------------------------------------
(* What is on the screen: per tab the tables from top to bottom, with the  *)
(* border that tells the selected one.                                     *)

Drawn(w) == [widget |-> w, rows |-> tables[w].items, highlighted |-> tables[w].selected]

Frame ==
    LET tabs == [Overview |-> <<"node_status", "global_chain_status", "batches", "blocks",
                                "mempool", "l1_to_l2_messages", "l2_to_l1_messages">>,
                 Logs |-> <<>>,
                 RichAccounts |-> <<"rich_accounts">>]
    IN [i \in DOMAIN tabs[ui.tab] |-> Drawn(tabs[ui.tab][i])]

-----------------------------------------------------------------------------
NewTable(w) ==
    [items |-> IF w = "rich_accounts" THEN <<1, 2>> ELSE <<>>, last |-> 0,
     cursor |-> 0, selected |-> w \in {"batches", "rich_accounts"}]

\* The chain may grow before the monitor reads it for the first time.
Init ==
    /\ chain = 0
    /\ phase = "starting"
    /\ mailbox = <<>> /\ timer = FALSE /\ stage = 1
    /\ tables = [w \in {Widgets[i] : i \in DOMAIN Widgets} |-> NewTable(w)]
    /\ ui = [tab |-> "Overview", selected_widget |-> 0, mouse_captured |-> TRUE,
             should_quit |-> FALSE]
    /\ events = 0 /\ failures = 0

Actor == Tick \/ handle_tick \/ handle_event

Next ==
    \/ Advance
    \/ TimerFires
    \/ Actor
    \/ \E key \in Keys : KeyPressed(key)

Spec == Init /\ [][Next]_vars

-----------------------------------------------------------------------------
(* Properties.                                                             *)

\* A key waits for at most one tick: the next one is scheduled when the one
\* before is over, however slow it was (app.rs:106, "prevents tick backlog from
\* blocking keyboard events").
NoTickBacklog ==
    Cardinality({i \in DOMAIN mailbox : mailbox[i] = "tick"})
      + (IF timer THEN 1 ELSE 0) + (IF stage # 0 /\ phase = "running" THEN 1 ELSE 0) <= 1

\* Each of the four tables is a window on its chain: none outgrows its size or
\* shows a thing twice, also after a tick that failed half way and was repeated,
\* and while no request failed the batches are the latest ones, the newest on
\* top and none left out (the on_tick of the tables).
TablesAreWindows ==
    /\ \A w \in {"batches", "blocks", "l1_to_l2_messages", "l2_to_l1_messages"} :
        LET items == tables[w].items
        IN /\ Len(items) <= Window
           /\ \A i, j \in DOMAIN items : items[i].number = items[j].number => i = j
    /\ LET table == tables["batches"]
       IN failures = 0 =>
            /\ Len(table.items) = Smaller(Window, table.last)
            /\ \A i \in DOMAIN table.items : table.items[i].number = table.last - i + 1

\* The highlight and the keys agree: on the Overview one table is highlighted,
\* and it is the one that w and s scroll (on_key_event, the border of render).
HighlightIsScrolled ==
    ui.tab = "Overview" =>
        {Frame[i].widget : i \in {j \in DOMAIN Frame : Frame[j].highlighted}} = {ScrolledTable}
=============================================================================
