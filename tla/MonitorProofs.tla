---------------------------- MODULE MonitorProofs ----------------------------
(***************************************************************************)
(* Proofs about Monitor: the mailbox of the actor, the highlighted table   *)
(* and the windows that the tables keep on their chains, for any chains,   *)
(* windows, keys and failing requests.                                     *)
(***************************************************************************)
EXTENDS Monitor, SequenceTheorems, FiniteSetTheorems, TLAPS

-----------------------------------------------------------------------------
(* Ticks.                                                                  *)

Ticks == {i \in DOMAIN mailbox : mailbox[i] = "tick"}

\* A tick is scheduled, waits or is handled, and only one of the three; the first
\* one runs before the actor takes messages.
OneTick ==
    /\ mailbox \in Seq(Keys \cup {"tick"})
    /\ timer \in BOOLEAN
    /\ \A i, j \in Ticks : i = j
    /\ timer => Ticks = {} /\ stage = 0
    /\ stage # 0 => Ticks = {} /\ phase \in {"starting", "running"}
    /\ phase = "starting" => Ticks = {} /\ ~timer

LEMMA AtMostOne ==
  ASSUME NEW S, \A x, y \in S : x = y
  PROVE  Cardinality(S) \in {0, 1} /\ (S = {} => Cardinality(S) = 0)
<1>1. CASE S = {}
  BY <1>1, FS_EmptySet
<1>2. CASE S # {}
  <2>1. PICK x \in S : TRUE
    BY <1>2
  <2>2. S = {x}
    BY <2>1
  <2>3. QED
    BY <1>2, <2>2, FS_Singleton
<1>3. QED
  BY <1>1, <1>2

\* A message at the end of the mailbox.
LEMMA Posted ==
  ASSUME NEW m \in Keys \cup {"tick"}, mailbox \in Seq(Keys \cup {"tick"}),
         mailbox' = Append(mailbox, m)
  PROVE  /\ mailbox' \in Seq(Keys \cup {"tick"})
         /\ Ticks' = Ticks \cup (IF m = "tick" THEN {Len(mailbox) + 1} ELSE {})
<1>1. /\ mailbox' \in Seq(Keys \cup {"tick"})
      /\ DOMAIN mailbox = 1 .. Len(mailbox) /\ Len(mailbox) \in Nat
      /\ DOMAIN mailbox' = 1 .. Len(mailbox) + 1
      /\ \A i \in 1 .. Len(mailbox) : mailbox'[i] = mailbox[i]
      /\ mailbox'[Len(mailbox) + 1] = m
  BY AppendProperties
<1>2. QED
  BY <1>1 DEF Ticks

\* The message at its head is taken.
LEMMA Taken ==
  ASSUME NEW m, mailbox \in Seq(Keys \cup {"tick"}), Takes(m)
  PROVE  /\ mailbox' \in Seq(Keys \cup {"tick"})
         /\ \A i \in Ticks' : i + 1 \in Ticks
         /\ m = "tick" => 1 \in Ticks
         /\ \A i \in Ticks' : i \in Int /\ i # 0
<1>1. mailbox # <<>> /\ Head(mailbox) = m /\ mailbox' = Tail(mailbox)
  BY DEF Takes
<1>2. /\ mailbox' \in Seq(Keys \cup {"tick"})
      /\ Len(mailbox) \in Nat \ {0} /\ DOMAIN mailbox = 1 .. Len(mailbox)
      /\ DOMAIN mailbox' = 1 .. Len(mailbox) - 1
      /\ \A i \in 1 .. Len(mailbox) - 1 : mailbox'[i] = mailbox[i + 1]
      /\ mailbox[1] = m
  BY <1>1, HeadTailProperties, EmptySeq
<1>3. QED
  BY <1>2 DEF Ticks

\* The end of a tick, and any other step that leaves the mailbox alone.
LEMMA EndOfTick ==
  ASSUME OneTick, NEW ok \in BOOLEAN, stage # 0, TickEnds(ok), mailbox' = mailbox
  PROVE  OneTick'
<1>1. Ticks' = Ticks
  BY DEF Ticks
<1>2. Ticks = {} /\ phase \in {"starting", "running"}
  BY DEF OneTick
<1>3. stage' = 0 /\ timer' \in BOOLEAN /\ (phase' = "starting" => ~timer')
  BY <1>2 DEF TickEnds
<1>4. QED
  BY <1>1, <1>2, <1>3 DEF OneTick

\* A widget refreshed: the next one, or the end of the tick.
LEMMA RefreshTicks ==
  ASSUME OneTick, NEW w, NEW table, NEW ok \in BOOLEAN, Refresh(w, table, ok)
  PROVE  OneTick'
<1>1. stage # 0 /\ mailbox' = mailbox
  BY DEF Refresh
<1>2. CASE TickEnds(ok)
  BY <1>1, <1>2, EndOfTick
<1>3. CASE stage' = stage + 1 /\ UNCHANGED <<phase, timer>>
  BY <1>1, <1>3 DEF OneTick, Ticks
<1>4. QED
  BY <1>2, <1>3 DEF Refresh

\* Every step of a tick refreshes a widget, and not its border.
Names == {Widgets[i] : i \in DOMAIN Widgets}

IsTable(t) ==
    t = [items |-> t.items, last |-> t.last, cursor |-> t.cursor, selected |-> t.selected]

Bordered == tables = [w \in Names |-> tables[w]] /\ \A w \in Names : IsTable(tables[w])

LEMMA TableKeepsBorder ==
  ASSUME NEW t, IsTable(t), NEW items, NEW last
  PROVE  /\ LET u == [t EXCEPT !.items = items] IN IsTable(u) /\ u.selected = t.selected
         /\ LET u == [t EXCEPT !.last = last] IN IsTable(u) /\ u.selected = t.selected
<1> DEFINE a == t.items
           b == t.last
           c == t.cursor
           d == t.selected
<1>1. t = [items |-> a, last |-> b, cursor |-> c, selected |-> d]
  BY DEF IsTable
<1> HIDE DEF a, b, c, d
<1>2. /\ [t EXCEPT !.items = items] = [items |-> items, last |-> b, cursor |-> c, selected |-> d]
      /\ [t EXCEPT !.last = last] = [items |-> a, last |-> last, cursor |-> c, selected |-> d]
  BY <1>1
<1>3. t.selected = d
  BY <1>1
<1>4. QED
  BY <1>2, <1>3 DEF IsTable

Refreshes(w) ==
    \E table, ok :
        /\ ok \in BOOLEAN
        /\ Refresh(w, table, ok)
        /\ IsTable(table)
        /\ table.selected = tables[w].selected

LEMMA FetchRefreshes ==
  ASSUME NEW w, NEW items, NEW last, NEW ok \in BOOLEAN, IsTable(tables[w]),
         Refresh(w, [tables[w] EXCEPT !.last = last, !.items = items], ok)
  PROVE  Refreshes(w)
<1> DEFINE v == [tables[w] EXCEPT !.last = last]
<1>1. IsTable(v) /\ v.selected = tables[w].selected
  BY TableKeepsBorder
<1>2. Refresh(w, [v EXCEPT !.items = items], ok)
  OBVIOUS
<1> HIDE DEF v
<1> DEFINE u == [v EXCEPT !.items = items]
<1>3. IsTable(u) /\ u.selected = v.selected
  BY <1>1, TableKeepsBorder
<1> HIDE DEF u
<1>4. Refresh(w, u, ok) /\ u.selected = tables[w].selected
  BY <1>1, <1>2, <1>3 DEF u
<1>5. QED
  BY <1>3, <1>4 DEF Refreshes

LEMMA RereadRefreshes ==
  ASSUME NEW w, NEW items, IsTable(tables[w]), Reread(w, items)
  PROVE  Refreshes(w)
BY TableKeepsBorder DEF Reread, Refreshes

LEMMA AscendingRefreshes ==
  ASSUME NEW w, NEW head, NEW stops, NEW st, IsTable(tables[w]),
         AscendingTick(w, head, stops, st)
  PROVE  Refreshes(w)
<1>1. ASSUME NEW last, Refresh(w, [tables[w] EXCEPT !.last = last], FALSE)
      PROVE  Refreshes(w)
  BY <1>1, TableKeepsBorder DEF Refreshes
<1>2. ASSUME NEW items, Refresh(w, [tables[w] EXCEPT !.last = head, !.items = items], TRUE)
      PROVE  Refreshes(w)
  BY <1>2, FetchRefreshes
<1>3. QED
  BY <1>1, <1>2, Zenon DEF AscendingTick

LEMMA MessagesRefreshes ==
  ASSUME NEW w, NEW head, NEW st, IsTable(tables[w]), MessagesTick(w, head, st)
  PROVE  Refreshes(w)
<1>1. ASSUME NEW items, Refresh(w, [tables[w] EXCEPT !.last = head, !.items = items], FALSE)
      PROVE  Refreshes(w)
  BY <1>1, FetchRefreshes
<1>2. CASE AscendingTick(w, head, ChunkEnds(tables[w].last, head), st)
  BY <1>2, AscendingRefreshes
<1>3. QED
  BY <1>1, <1>2, Zenon DEF MessagesTick

LEMMA BatchesRefreshes ==
  ASSUME IsTable(tables["batches"]), BatchesTick
  PROVE  Refreshes("batches")
<1>1. CASE Refresh("batches", tables["batches"], FALSE)
  BY <1>1, TableKeepsBorder DEF Refreshes
<1>2. ASSUME NEW last, Refresh("batches", [tables["batches"] EXCEPT !.last = last], FALSE)
      PROVE  Refreshes("batches")
  BY <1>2, TableKeepsBorder DEF Refreshes
<1>3. ASSUME NEW items, NEW ok \in BOOLEAN,
             Refresh("batches", [tables["batches"] EXCEPT !.last = chain, !.items = items], ok)
      PROVE  Refreshes("batches")
  BY <1>3, FetchRefreshes
<1>4. QED
  BY <1>1, <1>2, <1>3, Zenon DEF BatchesTick

LEMMA TickRefreshes ==
  ASSUME Bordered, Tick
  PROVE  \E w \in Names : Refreshes(w)
<1>1. /\ "node_status" \in Names /\ "global_chain_status" \in Names /\ "mempool" \in Names
      /\ "batches" \in Names /\ "blocks" \in Names /\ "l1_to_l2_messages" \in Names
      /\ "l2_to_l1_messages" \in Names /\ "rich_accounts" \in Names
  BY DEF Names, Widgets
<1>2. CASE NodeStatusTick
  BY <1>1, <1>2, RereadRefreshes DEF NodeStatusTick, Bordered
<1>3. CASE ChainStatusTick
  BY <1>1, <1>3, RereadRefreshes DEF ChainStatusTick, Bordered
<1>4. CASE MempoolTick
  BY <1>1, <1>4, RereadRefreshes DEF MempoolTick, Bordered
<1>5. CASE BatchesTick
  BY <1>1, <1>5, BatchesRefreshes DEF Bordered
<1>6. CASE BlocksTick
  BY <1>1, <1>6, AscendingRefreshes DEF BlocksTick, Bordered
<1>7. CASE L1ToL2MessagesTick
  BY <1>1, <1>7, MessagesRefreshes DEF L1ToL2MessagesTick, Bordered
<1>8. CASE L2ToL1MessagesTick
  BY <1>1, <1>8, MessagesRefreshes DEF L2ToL1MessagesTick, Bordered
<1>9. CASE RichAccountsTick
  BY <1>1, <1>9, RereadRefreshes DEF RichAccountsTick, Bordered
<1>10. QED
  BY <1>2, <1>3, <1>4, <1>5, <1>6, <1>7, <1>8, <1>9 DEF Tick

\* A step of a tick keeps the mailbox.
LEMMA TickKeepsOne ==
  ASSUME OneTick, Bordered, Tick
  PROVE  OneTick'
<1>1. PICK w \in Names : Refreshes(w)
  BY TickRefreshes
<1>2. QED
  BY <1>1, RefreshTicks DEF Refreshes

LEMMA OneTickStep ==
  ASSUME OneTick, Bordered, [Next]_vars
  PROVE  OneTick'
<1>1. CASE Tick
  BY <1>1, TickKeepsOne
<1>2. CASE TimerFires
  <2>1. /\ Ticks = {} /\ stage = 0 /\ timer' = FALSE /\ UNCHANGED <<stage, phase>>
        /\ phase = "running" /\ mailbox' = Append(mailbox, "tick")
    BY <1>2 DEF TimerFires, OneTick
  <2>2. mailbox' \in Seq(Keys \cup {"tick"}) /\ Ticks' = {Len(mailbox) + 1}
    BY <2>1, Posted DEF OneTick
  <2>3. QED
    BY <2>1, <2>2 DEF OneTick
<1>3. ASSUME NEW key \in Keys, KeyPressed(key)
      PROVE  OneTick'
  <2>1. key # "tick" /\ mailbox' = Append(mailbox, key) /\ UNCHANGED <<phase, timer, stage>>
    BY <1>3 DEF KeyPressed, Keys
  <2>2. mailbox' \in Seq(Keys \cup {"tick"}) /\ Ticks' = Ticks
    BY <2>1, Posted DEF OneTick
  <2>3. QED
    BY <2>1, <2>2 DEF OneTick
<1>4. CASE handle_tick
  <2>1. Takes("tick") /\ stage' = 1 /\ UNCHANGED <<phase, timer>>
    BY <1>4 DEF handle_tick
  <2>2. /\ mailbox' \in Seq(Keys \cup {"tick"}) /\ 1 \in Ticks
        /\ \A i \in Ticks' : i + 1 \in Ticks /\ i \in Int /\ i # 0
    BY <2>1, Taken DEF OneTick
  <2>3. Ticks' = {}
    <3> SUFFICES ASSUME NEW i \in Ticks' PROVE FALSE
      OBVIOUS
    <3>1. i + 1 \in Ticks /\ i \in Int /\ i # 0
      BY <2>2
    <3>2. i + 1 = 1
      BY <2>2, <3>1 DEF OneTick
    <3>3. QED
      BY <3>1, <3>2
  <2>4. phase = "running" /\ ~timer
    BY <2>1, <2>2 DEF Takes, OneTick
  <2>5. QED
    BY <2>1, <2>2, <2>3, <2>4 DEF OneTick
<1>5. CASE handle_event
  <2>1. PICK key \in Keys : Takes(key)
    BY <1>5 DEF handle_event
  <2>2. /\ stage = 0 /\ phase = "running" /\ UNCHANGED <<timer, stage>>
        /\ phase' \in {"running", "stopped"}
    BY <1>5, <2>1 DEF handle_event, Takes
  <2>3. /\ mailbox' \in Seq(Keys \cup {"tick"})
        /\ \A i \in Ticks' : i + 1 \in Ticks /\ i \in Int
    BY <2>1, Taken DEF OneTick
  <2>4. \A i, j \in Ticks' : i = j
    <3> SUFFICES ASSUME NEW i \in Ticks', NEW j \in Ticks' PROVE i = j
      OBVIOUS
    <3>1. i + 1 \in Ticks /\ i \in Int /\ j + 1 \in Ticks /\ j \in Int
      BY <2>3
    <3>2. i + 1 = j + 1
      BY <3>1 DEF OneTick
    <3>3. QED
      BY <3>1, <3>2
  <2>5. timer => Ticks' = {}
    BY <2>3 DEF OneTick
  <2>6. QED
    BY <2>2, <2>3, <2>4, <2>5 DEF OneTick
<1>6. CASE Advance \/ UNCHANGED vars
  <2>1. UNCHANGED <<phase, mailbox, timer, stage>>
    BY <1>6 DEF Advance, vars
  <2>2. QED
    BY <2>1 DEF OneTick, Ticks
<1>7. QED
  BY <1>1, <1>2, <1>3, <1>4, <1>5, <1>6 DEF Next, Actor

-----------------------------------------------------------------------------
(* The highlight.                                                          *)

\* One of the tables of the Overview has the border, the one of selected_widget.
OneBorder ==
    /\ Bordered
    /\ ui \in [tab : {"Overview", "Logs", "RichAccounts"}, selected_widget : 0 .. 4,
               mouse_captured : BOOLEAN, should_quit : BOOLEAN]
    /\ \A w \in Names \ {"rich_accounts"} : tables[w].selected <=> w = Selected

LEMMA FieldOfTable ==
  ASSUME NEW t, IsTable(t), NEW x
  PROVE  /\ LET u == [t EXCEPT !.cursor = x] IN IsTable(u) /\ u.selected = t.selected
         /\ LET u == [t EXCEPT !.selected = FALSE] IN IsTable(u) /\ ~u.selected
         /\ LET u == [t EXCEPT !.selected = TRUE] IN IsTable(u) /\ u.selected
<1> DEFINE a == t.items
           b == t.last
           c == t.cursor
           d == t.selected
<1>1. t = [items |-> a, last |-> b, cursor |-> c, selected |-> d]
  BY DEF IsTable
<1> HIDE DEF a, b, c, d
<1>2. d = t.selected
  BY <1>1
<1>3. [t EXCEPT !.cursor = x] = [items |-> a, last |-> b, cursor |-> x, selected |-> d]
  BY <1>1
<1>4. LET u == [t EXCEPT !.cursor = x] IN IsTable(u) /\ u.selected = t.selected
  BY <1>2, <1>3 DEF IsTable
<1>5. ASSUME NEW y
      PROVE  LET u == [t EXCEPT !.selected = y] IN IsTable(u) /\ u.selected = y
  <2>1. [t EXCEPT !.selected = y] = [items |-> a, last |-> b, cursor |-> c, selected |-> y]
    BY <1>1
  <2>2. QED
    BY <2>1 DEF IsTable
<1>6. LET u == [t EXCEPT !.selected = FALSE] IN IsTable(u) /\ u.selected = FALSE
  BY <1>5, Zenon
<1>7. LET u == [t EXCEPT !.selected = TRUE] IN IsTable(u) /\ u.selected = TRUE
  BY <1>5, Zenon
<1>8. QED
  BY <1>4, <1>6, <1>7, Zenon

\* Tables of which one was replaced.
LEMMA OneReplaced ==
  ASSUME NEW f, f = [w \in Names |-> f[w]], \A w \in Names : IsTable(f[w]),
         NEW o \in Names, NEW u, IsTable(u), NEW g, g = [f EXCEPT ![o] = u]
  PROVE  /\ g = [w \in Names |-> g[w]]
         /\ \A w \in Names : IsTable(g[w]) /\ g[w] = (IF w = o THEN u ELSE f[w])
OBVIOUS

LEMMA ScrollableTables ==
  /\ Len(Scrollable) = 5
  /\ \A k \in 0 .. 4 : Scrollable[k + 1] \in Names \ {"rich_accounts"}
  /\ \A k, l \in 0 .. 4 : Scrollable[k + 1] = Scrollable[l + 1] => k = l
BY DEF Scrollable, Names, Widgets

LEMMA SelectKeepsOne ==
  ASSUME OneBorder, NEW step \in {1, 4}, SelectTable(step)
  PROVE  OneBorder'
<1> DEFINE widget == (ui.selected_widget + step) % 5
           new == Scrollable[widget + 1]
           old == Selected
           first == [tables EXCEPT ![old] = [@ EXCEPT !.selected = FALSE]]
<1>1. /\ widget \in 0 .. 4 /\ ui.selected_widget \in 0 .. 4
      /\ new \in Names \ {"rich_accounts"} /\ old \in Names \ {"rich_accounts"}
  BY ScrollableTables DEF OneBorder, Selected
<1>2. /\ ui' = [ui EXCEPT !.selected_widget = widget]
      /\ tables' = [first EXCEPT ![new] = [@ EXCEPT !.selected = TRUE]]
  BY ScrollableTables DEF SelectTable
<1>3. Selected' = new
  BY <1>2 DEF Selected, OneBorder
<1> HIDE DEF widget, new, old
<1>4. /\ first = [w \in Names |-> first[w]]
      /\ \A w \in Names : /\ IsTable(first[w])
                          /\ first[w].selected <=> w # old /\ tables[w].selected
  <2> DEFINE u == [tables[old] EXCEPT !.selected = FALSE]
  <2>1. IsTable(u) /\ ~u.selected
    BY <1>1, FieldOfTable DEF OneBorder, Bordered
  <2>2. first = [tables EXCEPT ![old] = u]
    OBVIOUS
  <2> HIDE DEF u, first
  <2>3. QED
    BY <1>1, <2>1, <2>2, OneReplaced DEF OneBorder, Bordered
<1> HIDE DEF first
<1>5. /\ tables' = [w \in Names |-> tables'[w]]
      /\ \A w \in Names : /\ IsTable(tables'[w])
                          /\ tables'[w].selected <=> w = new \/ first[w].selected
  <2> DEFINE u == [first[new] EXCEPT !.selected = TRUE]
  <2>1. IsTable(u) /\ u.selected
    BY <1>1, <1>4, FieldOfTable
  <2>2. tables' = [first EXCEPT ![new] = u]
    BY <1>2
  <2> HIDE DEF u
  <2>3. QED
    BY <1>1, <1>4, <2>1, <2>2, OneReplaced
<1>6. Bordered'
  BY <1>5 DEF Bordered, IsTable
<1>7. \A w \in Names \ {"rich_accounts"} : tables'[w].selected <=> w = new
  BY <1>1, <1>4, <1>5 DEF OneBorder, old
<1>8. ui' \in [tab : {"Overview", "Logs", "RichAccounts"}, selected_widget : 0 .. 4,
               mouse_captured : BOOLEAN, should_quit : BOOLEAN]
  BY <1>1, <1>2 DEF OneBorder
<1>9. QED
  BY <1>3, <1>6, <1>7, <1>8 DEF OneBorder

\* A table of which the rows, the progress or the cursor changed keeps its border.
LEMMA BorderKept ==
  ASSUME OneBorder, NEW w \in Names, NEW u, IsTable(u), u.selected = tables[w].selected,
         tables' = [tables EXCEPT ![w] = u], ui' = ui
  PROVE  OneBorder'
<1>1. /\ tables' = [x \in Names |-> tables'[x]]
      /\ \A x \in Names : IsTable(tables'[x]) /\ tables'[x] = (IF x = w THEN u ELSE tables[x])
  BY OneReplaced DEF OneBorder, Bordered
<1>2. Bordered' /\ Selected' = Selected
  BY <1>1 DEF Bordered, IsTable, Selected
<1>3. QED
  BY <1>1, <1>2 DEF OneBorder

LEMMA OneBorderStep ==
  ASSUME OneBorder, [Next]_vars
  PROVE  OneBorder'
<1>1. CASE Tick
  <2>1. PICK w \in Names : Refreshes(w)
    BY <1>1, TickRefreshes DEF OneBorder
  <2>2. QED
    BY <2>1, BorderKept DEF Refreshes, Refresh
<1>2. CASE handle_event
  <2>1. PICK key \in Keys : on_key_event(key)
    BY <1>2 DEF handle_event
  <2>2. ASSUME NEW w \in Names, ScrollUp(w) \/ ScrollDown(w)
        PROVE  OneBorder'
    <3>1. \E x : tables' = [tables EXCEPT ![w].cursor = x]
      BY <2>2 DEF ScrollUp, ScrollDown
    <3>2. PICK x : tables' = [tables EXCEPT ![w] = [tables[w] EXCEPT !.cursor = x]]
      BY <3>1
    <3>3. IsTable([tables[w] EXCEPT !.cursor = x])
            /\ [tables[w] EXCEPT !.cursor = x].selected = tables[w].selected
      BY FieldOfTable DEF OneBorder, Bordered
    <3>4. UNCHANGED ui
      BY <2>2 DEF ScrollUp, ScrollDown
    <3>5. QED
      BY <3>2, <3>3, <3>4, BorderKept
  <2>3. ScrolledTable \in Names
    <3>1. Selected \in Names
      BY ScrollableTables DEF OneBorder, Selected
    <3>2. "rich_accounts" \in Names
      BY DEF Names, Widgets
    <3>3. QED
      BY <3>1, <3>2 DEF ScrolledTable
  <2>4. CASE SelectTable(IF key = "Down" THEN 1 ELSE Len(Scrollable) - 1)
    <3>1. (IF key = "Down" THEN 1 ELSE Len(Scrollable) - 1) \in {1, 4}
      BY ScrollableTables
    <3>2. QED
      BY <2>4, <3>1, SelectKeepsOne
  <2>5. CASE /\ UNCHANGED tables
             /\ \/ ui' = [ui EXCEPT !.should_quit = TRUE]
                \/ ui' = [ui EXCEPT !.mouse_captured = ~@]
                \/ ui' = [ui EXCEPT !.tab = NextTab[@]]
                \/ ui' = ui
    <3>1. /\ ui' \in [tab : {"Overview", "Logs", "RichAccounts"}, selected_widget : 0 .. 4,
                      mouse_captured : BOOLEAN, should_quit : BOOLEAN]
          /\ ui'.selected_widget = ui.selected_widget
      <4>1. NextTab[ui.tab] \in {"Overview", "Logs", "RichAccounts"}
        BY DEF OneBorder, NextTab
      <4>2. CASE ui' = [ui EXCEPT !.tab = NextTab[@]]
        BY <4>1, <4>2 DEF OneBorder
      <4>3. CASE \/ ui' = [ui EXCEPT !.should_quit = TRUE]
                 \/ ui' = [ui EXCEPT !.mouse_captured = ~@]
                 \/ ui' = ui
        BY <4>3 DEF OneBorder
      <4>4. QED
        BY <2>5, <4>2, <4>3
    <3>2. Selected' = Selected
      BY <3>1 DEF Selected
    <3>3. QED
      BY <2>5, <3>1, <3>2 DEF OneBorder, Bordered, IsTable
  <2>6. QED
    BY <2>1, <2>2, <2>3, <2>4, <2>5 DEF on_key_event
<1>3. CASE Advance \/ TimerFires \/ handle_tick \/ (\E key \in Keys : KeyPressed(key))
             \/ UNCHANGED vars
  <2>1. UNCHANGED <<tables, ui>>
    BY <1>3 DEF Advance, TimerFires, handle_tick, KeyPressed, vars
  <2>2. QED
    BY <2>1 DEF OneBorder, Bordered, IsTable, Selected
<1>4. QED
  BY <1>1, <1>2, <1>3 DEF Next, Actor

LEMMA InitOK == Init => OneTick /\ OneBorder
<1> SUFFICES ASSUME Init PROVE OneTick /\ OneBorder
  OBVIOUS
<1>1. DOMAIN mailbox = {} /\ mailbox \in Seq(Keys \cup {"tick"})
  BY DEF Init
<1>2. OneTick
  BY <1>1 DEF Init, OneTick, Ticks
<1>3. /\ tables = [w \in Names |-> NewTable(w)]
      /\ \A w \in Names : IsTable(NewTable(w))
      /\ \A w \in Names : (NewTable(w).selected <=> w \in {"batches", "rich_accounts"})
  BY DEF Init, Names, IsTable, NewTable
<1>4. Bordered
  BY <1>3 DEF Bordered
<1>5. ui.selected_widget = 0 /\ Selected = "batches"
  BY DEF Init, Selected, Scrollable
<1>6. QED
  BY <1>2, <1>3, <1>4, <1>5 DEF Init, OneBorder

LEMMA Always == Spec => [](OneTick /\ OneBorder)
<1>1. OneTick /\ OneBorder /\ [Next]_vars => OneTick' /\ OneBorder'
  BY OneTickStep, OneBorderStep DEF OneBorder
<1>2. QED
  BY <1>1, InitOK, PTL DEF Spec

\* However slow a tick is and however it ends, no two ticks are under way, waiting or
\* scheduled, so no key waits for more than one (handle_tick schedules the next one
\* only when on_tick is over).
THEOREM NoBacklog == Spec => []NoTickBacklog
<1>1. OneTick => NoTickBacklog
  <2> SUFFICES ASSUME OneTick PROVE NoTickBacklog
    OBVIOUS
  <2>1. Cardinality(Ticks) \in {0, 1} /\ (Ticks = {} => Cardinality(Ticks) = 0)
    BY AtMostOne DEF OneTick
  <2>2. QED
    BY <2>1 DEF NoTickBacklog, Ticks, OneTick
<1>2. QED
  BY <1>1, Always, PTL

\* Through any keys, tabs and ticks one table of the Overview is highlighted, the one
\* that w and s scroll (on_key_event).
THEOREM HighlightIsTrue == Spec => []HighlightIsScrolled
<1>1. OneBorder => HighlightIsScrolled
  <2> SUFFICES ASSUME OneBorder, ui.tab = "Overview"
               PROVE  {Frame[i].widget : i \in {j \in DOMAIN Frame : Frame[j].highlighted}}
                        = {ScrolledTable}
    BY DEF HighlightIsScrolled
  <2> DEFINE order == <<"node_status", "global_chain_status", "batches", "blocks",
                        "mempool", "l1_to_l2_messages", "l2_to_l1_messages">>
  <2>1. Frame = [i \in 1 .. 7 |-> Drawn(order[i])]
    BY DEF Frame
  <2>2. /\ \A i \in 1 .. 7 : order[i] \in Names \ {"rich_accounts"}
        /\ \A k \in 0 .. 4 : \E i \in 1 .. 7 : order[i] = Scrollable[k + 1]
    BY DEF Names, Widgets, Scrollable
  <2> HIDE DEF order
  <2>3. \A i \in 1 .. 7 : /\ Frame[i].widget = order[i]
                          /\ Frame[i].highlighted <=> order[i] = Selected
    BY <2>1, <2>2 DEF Drawn, OneBorder
  <2>4. ScrolledTable = Selected /\ \E i \in 1 .. 7 : order[i] = Selected
    BY <2>2 DEF ScrolledTable, OneBorder, Selected
  <2>5. DOMAIN Frame = 1 .. 7
    BY <2>1
  <2>6. PICK i \in 1 .. 7 : order[i] = Selected
    BY <2>4
  <2>7. {Frame[j].widget : j \in {k \in 1 .. 7 : Frame[k].highlighted}} = {Selected}
    <3>1. \A k \in 1 .. 7 : Frame[k].highlighted => Frame[k].widget = Selected
      BY <2>3
    <3>2. Frame[i].highlighted /\ Frame[i].widget = Selected
      BY <2>3, <2>6
    <3>3. QED
      BY <3>1, <3>2
  <2>8. QED
    BY <2>4, <2>5, <2>7
<1>2. QED
  BY <1>1, Always, PTL

-----------------------------------------------------------------------------
(* The sequences the tables are made of.                                   *)

LEMMA FnIsSeq ==
  ASSUME NEW S, NEW n \in Nat, NEW f \in [1 .. n -> S]
  PROVE  f \in Seq(S) /\ Len(f) = n
<1>1. f \in Seq(S)
  BY SeqDef
<1>2. DOMAIN f = 1 .. Len(f) /\ Len(f) \in Nat /\ DOMAIN f = 1 .. n
  BY <1>1, LenProperties
<1>3. QED
  BY <1>1, <1>2

LEMMA AscendingSeq ==
  ASSUME NEW from \in Int, NEW to \in Int, to - from + 1 \in Nat
  PROVE  /\ Ascending(from, to) \in Seq(from .. to)
         /\ Len(Ascending(from, to)) = to - from + 1
         /\ \A i \in 1 .. to - from + 1 : Ascending(from, to)[i] = from + i - 1
<1>1. Ascending(from, to) \in [1 .. to - from + 1 -> from .. to]
  BY DEF Ascending
<1>2. QED
  BY <1>1, FnIsSeq DEF Ascending

LEMMA DescendingSeq ==
  ASSUME NEW from \in Int, NEW to \in Int, to - from + 1 \in Nat
  PROVE  /\ Descending(to, from) \in Seq(from .. to)
         /\ Len(Descending(to, from)) = to - from + 1
         /\ \A i \in 1 .. to - from + 1 : Descending(to, from)[i] = to - i + 1
<1> DEFINE s == Ascending(from, to)
<1>1. /\ s \in Seq(from .. to) /\ Len(s) = to - from + 1
      /\ \A i \in 1 .. to - from + 1 : s[i] = from + i - 1
  BY AscendingSeq
<1> HIDE DEF s
<1>2. /\ Reverse(s) \in [1 .. to - from + 1 -> from .. to]
      /\ \A i \in 1 .. to - from + 1 : Reverse(s)[i] = to - i + 1
  BY <1>1 DEF Reverse
<1>3. Reverse(s) \in Seq(from .. to) /\ Len(Reverse(s)) = to - from + 1
  BY <1>2, FnIsSeq
<1>4. QED
  BY <1>2, <1>3 DEF Descending, s

Statuses == {"ProcessedOnL2", "Pending", "Claimed", "Initiated", "Verified", "Committed", ""}

\* Rows of the blocks from lo to hi.
Row(lo, hi) == [number : lo .. hi, status : Statuses]

Distinct(rows) == \A i, j \in DOMAIN rows : rows[i].number = rows[j].number => i = j

SameNumbers(s, t) == Len(s) = Len(t) /\ \A i \in 1 .. Len(s) : s[i].number = t[i].number

LEMMA WiderRow ==
  ASSUME NEW lo \in Int, NEW hi \in Int, NEW top \in Int, hi <= top, NEW rows \in Seq(Row(lo, hi))
  PROVE  rows \in Seq(Row(lo, top))
<1>1. Row(lo, hi) \subseteq Row(lo, top)
  BY DEF Row
<1>2. QED
  BY <1>1, SeqMonotonic

\* A part of a table keeps its rows.
LEMMA PartOfRows ==
  ASSUME NEW R, NEW rows \in Seq(R), Distinct(rows), NEW m \in Nat \ {0}, NEW n \in Nat, n <= Len(rows)
  PROVE  /\ SubSeq(rows, m, n) \in Seq(R)
         /\ Distinct(SubSeq(rows, m, n))
         /\ Len(SubSeq(rows, m, n)) = IF m <= n THEN n - m + 1 ELSE 0
         /\ \A i \in 1 .. n - m + 1 : SubSeq(rows, m, n)[i] = rows[m + i - 1]
<1>1. DOMAIN rows = 1 .. Len(rows) /\ Len(rows) \in Nat /\ \A i \in 1 .. Len(rows) : rows[i] \in R
  BY LenProperties, ElementOfSeq
<1> DEFINE part == SubSeq(rows, m, n)
<1>2. /\ part \in Seq(R)
      /\ Len(part) = IF m <= n THEN n - m + 1 ELSE 0
      /\ \A i \in 1 .. n - m + 1 : part[i] = rows[m + i - 1]
  BY <1>1, SubSeqProperties
<1>3. DOMAIN part = 1 .. Len(part)
  BY <1>2, LenProperties
<1> HIDE DEF part
<1>4. Distinct(part)
  <2> SUFFICES ASSUME NEW i \in DOMAIN part, NEW j \in DOMAIN part, part[i].number = part[j].number
               PROVE  i = j
    BY DEF Distinct
  <2>1. /\ i \in 1 .. n - m + 1 /\ j \in 1 .. n - m + 1
        /\ m + i - 1 \in DOMAIN rows /\ m + j - 1 \in DOMAIN rows
    <3>1. /\ i \in 1 .. n - m + 1 /\ j \in 1 .. n - m + 1
      <4>1. CASE m <= n
        BY <1>2, <1>3, <4>1
      <4>2. CASE ~(m <= n)
        BY <1>2, <1>3, <4>2
      <4>3. QED
        BY <4>1, <4>2
    <3>2. QED
      BY <1>1, <3>1
  <2>2. m + i - 1 = m + j - 1
    BY <1>2, <2>1 DEF Distinct
  <2>3. QED
    BY <2>1, <2>2
<1>5. QED
  BY <1>2, <1>4 DEF part

\* New rows, all later than the ones that are kept.
LEMMA Joined ==
  ASSUME NEW last \in Nat, NEW head \in Nat, last <= head,
         NEW new \in Seq(Row(last + 1, head)), Distinct(new),
         NEW kept \in Seq(Row(1, last)), Distinct(kept)
  PROVE  /\ new \o kept \in Seq(Row(1, head)) /\ Distinct(new \o kept)
         /\ Len(new \o kept) = Len(new) + Len(kept)
         /\ \A i \in 1 .. Len(new) + Len(kept) :
               (new \o kept)[i] = IF i <= Len(new) THEN new[i] ELSE kept[i - Len(new)]
<1>1. Row(last + 1, head) \subseteq Row(1, head) /\ Row(1, last) \subseteq Row(1, head)
  BY DEF Row
<1>2. new \in Seq(Row(1, head)) /\ kept \in Seq(Row(1, head))
  BY <1>1, SeqMonotonic
<1> DEFINE all == new \o kept
<1>3. /\ all \in Seq(Row(1, head)) /\ Len(all) = Len(new) + Len(kept)
      /\ \A i \in 1 .. Len(new) + Len(kept) : all[i] = IF i <= Len(new) THEN new[i] ELSE kept[i - Len(new)]
  BY <1>2, ConcatProperties
<1>4. /\ DOMAIN all = 1 .. Len(all) /\ DOMAIN new = 1 .. Len(new) /\ DOMAIN kept = 1 .. Len(kept)
      /\ Len(new) \in Nat /\ Len(kept) \in Nat
  BY <1>2, <1>3, LenProperties
<1>5. /\ \A i \in DOMAIN new : new[i].number \in Int /\ new[i].number > last
      /\ \A i \in DOMAIN kept : kept[i].number \in Int /\ kept[i].number <= last
  <2>1. /\ \A i \in DOMAIN new : new[i] \in Row(last + 1, head)
        /\ \A i \in DOMAIN kept : kept[i] \in Row(1, last)
    BY <1>4, ElementOfSeq
  <2>2. QED
    BY <2>1 DEF Row
<1> HIDE DEF all
<1>6. Distinct(all)
  <2> SUFFICES ASSUME NEW i \in DOMAIN all, NEW j \in DOMAIN all, all[i].number = all[j].number
               PROVE  i = j
    BY DEF Distinct
  <2>0. i \in 1 .. Len(new) + Len(kept) /\ j \in 1 .. Len(new) + Len(kept)
    BY <1>3, <1>4
  <2>1. CASE i <= Len(new) /\ j <= Len(new)
    BY <1>3, <1>4, <2>0, <2>1 DEF Distinct
  <2>2. CASE ~(i <= Len(new)) /\ ~(j <= Len(new))
    <3>1. i - Len(new) \in DOMAIN kept /\ j - Len(new) \in DOMAIN kept
      BY <1>4, <2>0, <2>2
    <3>2. i - Len(new) = j - Len(new)
      BY <1>3, <2>0, <2>2, <3>1 DEF Distinct
    <3>3. QED
      BY <1>4, <2>0, <3>2
  <2>3. CASE i <= Len(new) /\ ~(j <= Len(new))
    <3>1. i \in DOMAIN new /\ j - Len(new) \in DOMAIN kept
      BY <1>4, <2>0, <2>3
    <3>2. new[i].number = kept[j - Len(new)].number
      BY <1>3, <2>0, <2>3
    <3>3. QED
      BY <1>5, <3>1, <3>2
  <2>4. CASE ~(i <= Len(new)) /\ j <= Len(new)
    <3>1. j \in DOMAIN new /\ i - Len(new) \in DOMAIN kept
      BY <1>4, <2>0, <2>4
    <3>2. new[j].number = kept[i - Len(new)].number
      BY <1>3, <2>0, <2>4
    <3>3. QED
      BY <1>5, <3>1, <3>2
  <2>5. QED
    BY <2>1, <2>2, <2>3, <2>4
<1>7. QED
  BY <1>3, <1>6 DEF all

\* The rows of some blocks, each once.
LEMMA RowsOf ==
  ASSUME NEW lo \in Nat \ {0}, NEW hi \in Nat, hi <= MaxBlock, NEW status \in [Numbers -> Statuses],
         NEW numbers \in Seq(lo .. hi),
         \A i, j \in 1 .. Len(numbers) : numbers[i] = numbers[j] => i = j
  PROVE  /\ Rows(numbers, status) \in Seq(Row(lo, hi)) /\ Distinct(Rows(numbers, status))
         /\ Len(Rows(numbers, status)) = Len(numbers)
         /\ \A i \in 1 .. Len(numbers) : Rows(numbers, status)[i].number = numbers[i]
<1>1. /\ DOMAIN numbers = 1 .. Len(numbers) /\ Len(numbers) \in Nat
      /\ \A i \in 1 .. Len(numbers) : numbers[i] \in lo .. hi
  BY LenProperties, ElementOfSeq
<1>2. \A i \in 1 .. Len(numbers) : status[numbers[i]] \in Statuses
  <2>1. \A i \in 1 .. Len(numbers) : numbers[i] \in Numbers
    BY <1>1, MonitorAssumption DEF Numbers
  <2>2. QED
    BY <2>1
<1>3. /\ Rows(numbers, status) \in [1 .. Len(numbers) -> Row(lo, hi)]
      /\ \A i \in 1 .. Len(numbers) : Rows(numbers, status)[i].number = numbers[i]
  BY <1>1, <1>2 DEF Rows, Row
<1>4. Rows(numbers, status) \in Seq(Row(lo, hi)) /\ Len(Rows(numbers, status)) = Len(numbers)
  BY <1>1, <1>3, FnIsSeq
<1>5. DOMAIN Rows(numbers, status) = 1 .. Len(numbers)
  BY <1>3
<1>6. QED
  BY <1>3, <1>4, <1>5 DEF Distinct

\* A row whose status is asked for again is the same row.
LEMMA SameRow ==
  ASSUME NEW lo, NEW hi, NEW row \in Row(lo, hi), NEW st \in Statuses
  PROVE  [row EXCEPT !.status = st] \in Row(lo, hi) /\ [row EXCEPT !.status = st].number = row.number
BY DEF Row

LEMMA StatusTypes ==
  /\ L1ToL2Status \in [Numbers -> Statuses] /\ L2ToL1Status \in [Numbers -> Statuses]
  /\ BatchStatus \in [Numbers -> Statuses] /\ [b \in Numbers |-> ""] \in [Numbers -> Statuses]
BY DEF L1ToL2Status, L2ToL1Status, BatchStatus, Statuses

LEMMA RefreshedRows ==
  ASSUME NEW hi \in Nat, hi <= MaxBlock, NEW rows \in Seq(Row(1, hi)), NEW status \in [Numbers -> Statuses]
  PROVE  /\ Refreshed(rows, status) \in Seq(Row(1, hi)) /\ SameNumbers(Refreshed(rows, status), rows)
         /\ RefreshedBatches(rows) \in Seq(Row(1, hi)) /\ SameNumbers(RefreshedBatches(rows), rows)
<1>1. /\ DOMAIN rows = 1 .. Len(rows) /\ Len(rows) \in Nat
      /\ \A i \in 1 .. Len(rows) : rows[i] \in Row(1, hi)
  BY LenProperties, ElementOfSeq
<1>2. ASSUME NEW i \in 1 .. Len(rows) PROVE rows[i].number \in Numbers
  <2>1. rows[i].number \in 1 .. hi
    BY <1>1 DEF Row
  <2>2. QED
    BY <2>1, MonitorAssumption DEF Numbers
<1>3. ASSUME NEW i \in 1 .. Len(rows), NEW st \in Statuses
      PROVE  [rows[i] EXCEPT !.status = st] \in Row(1, hi)
               /\ [rows[i] EXCEPT !.status = st].number = rows[i].number
  <2>1. rows[i] \in Row(1, hi)
    BY <1>1
  <2>2. \A r \in Row(1, hi) : /\ [r EXCEPT !.status = st] \in Row(1, hi)
                              /\ [r EXCEPT !.status = st].number = r.number
    BY SameRow
  <2>3. QED
    BY <2>1, <2>2
<1>4. ASSUME NEW f \in [1 .. Len(rows) -> Row(1, hi)],
             \A i \in 1 .. Len(rows) : f[i].number = rows[i].number
      PROVE  f \in Seq(Row(1, hi)) /\ SameNumbers(f, rows)
  BY <1>1, <1>4, FnIsSeq DEF SameNumbers
<1>5. /\ Refreshed(rows, status) \in [1 .. Len(rows) -> Row(1, hi)]
      /\ \A i \in 1 .. Len(rows) : Refreshed(rows, status)[i].number = rows[i].number
  BY <1>1, <1>2, <1>3 DEF Refreshed
<1>6. /\ RefreshedBatches(rows) \in [1 .. Len(rows) -> Row(1, hi)]
      /\ \A i \in 1 .. Len(rows) : RefreshedBatches(rows)[i].number = rows[i].number
  BY <1>1, <1>2, <1>3, StatusTypes DEF RefreshedBatches
<1>7. QED
  BY <1>4, <1>5, <1>6

LEMMA SameNumbersDistinct ==
  ASSUME NEW R, NEW s \in Seq(R), NEW t \in Seq(R), SameNumbers(s, t), Distinct(t)
  PROVE  Distinct(s)
<1>1. DOMAIN s = 1 .. Len(s) /\ DOMAIN t = 1 .. Len(t) /\ Len(s) = Len(t)
  BY LenProperties DEF SameNumbers
<1>2. QED
  BY <1>1 DEF SameNumbers, Distinct

-----------------------------------------------------------------------------
(* The windows.                                                            *)

Chains == {"batches", "blocks", "l1_to_l2_messages", "l2_to_l1_messages"}

IsWindow(table, head) ==
    /\ table.last \in Nat /\ table.last <= head
    /\ table.items \in Seq(Row(1, table.last))
    /\ Distinct(table.items)
    /\ Len(table.items) <= Window

\* The newest on top, and none left out.
Unbroken(table) ==
    /\ Len(table.items) = Smaller(Window, table.last)
    /\ \A i \in 1 .. Len(table.items) : table.items[i].number = table.last - i + 1

Windowed ==
    /\ chain \in Nat /\ chain <= MaxBlock /\ failures \in Nat
    /\ \A w \in Chains : IsWindow(tables[w], chain)
    /\ failures = 0 => Unbroken(tables["batches"])

LEMMA FetchedFields ==
  ASSUME NEW t, IsTable(t), NEW items, NEW last
  PROVE  /\ [t EXCEPT !.last = last].last = last
         /\ [t EXCEPT !.last = last].items = t.items
         /\ [t EXCEPT !.last = last, !.items = items].last = last
         /\ [t EXCEPT !.last = last, !.items = items].items = items
<1> DEFINE a == t.items
           b == t.last
           c == t.cursor
           d == t.selected
<1>1. t = [items |-> a, last |-> b, cursor |-> c, selected |-> d]
  BY DEF IsTable
<1>2. a = t.items
  OBVIOUS
<1> HIDE DEF a, b, c, d
<1> DEFINE v == [t EXCEPT !.last = last]
<1>3. v = [items |-> a, last |-> last, cursor |-> c, selected |-> d]
  BY <1>1
<1> HIDE DEF v
<1> DEFINE u == [v EXCEPT !.items = items]
<1>4. u = [items |-> items, last |-> last, cursor |-> c, selected |-> d]
  BY <1>3
<1> HIDE DEF u
<1>5. v.last = last
  BY <1>3
<1>6. v.items = t.items
  BY <1>2, <1>3
<1>7. u.last = last
  BY <1>4
<1>8. u.items = items
  BY <1>4
<1>9. [t EXCEPT !.last = last, !.items = items] = u
  BY DEF u, v
<1>10. QED
  BY <1>5, <1>6, <1>7, <1>8, <1>9, Zenon DEF v

LEMMA OthersFields ==
  ASSUME NEW t, IsTable(t), NEW x
  PROVE  /\ [t EXCEPT !.cursor = x].last = t.last
         /\ [t EXCEPT !.cursor = x].items = t.items
         /\ [t EXCEPT !.selected = x].last = t.last
         /\ [t EXCEPT !.selected = x].items = t.items
<1> DEFINE a == t.items
           b == t.last
           c == t.cursor
           d == t.selected
<1>1. t = [items |-> a, last |-> b, cursor |-> c, selected |-> d]
  BY DEF IsTable
<1>2. a = t.items /\ b = t.last
  OBVIOUS
<1> HIDE DEF a, b, c, d
<1>3. [t EXCEPT !.cursor = x] = [items |-> a, last |-> b, cursor |-> x, selected |-> d]
  BY <1>1
<1>4. [t EXCEPT !.selected = x] = [items |-> a, last |-> b, cursor |-> c, selected |-> x]
  BY <1>1
<1>5. /\ [t EXCEPT !.cursor = x].last = t.last
      /\ [t EXCEPT !.cursor = x].items = t.items
  BY <1>2, <1>3
<1>6. /\ [t EXCEPT !.selected = x].last = t.last
      /\ [t EXCEPT !.selected = x].items = t.items
  BY <1>2, <1>4
<1>7. QED
  BY <1>5, <1>6

\* A tick that failed in its fetch: the progress went up, the rows stay.
LEMMA FailedFetch ==
  ASSUME NEW t, IsTable(t), NEW head \in Nat, IsWindow(t, head), NEW last \in t.last .. head
  PROVE  IsWindow([t EXCEPT !.last = last], head)
<1> DEFINE u == [t EXCEPT !.last = last]
<1>1. u.last = last /\ u.items = t.items
  BY FetchedFields
<1> HIDE DEF u
<1>2. last \in Nat /\ t.last \in Nat /\ t.last <= last /\ last <= head
  BY DEF IsWindow
<1>3. t.items \in Seq(Row(1, last))
  BY <1>2, WiderRow DEF IsWindow
<1>4. QED
  BY <1>1, <1>2, <1>3 DEF IsWindow, u

\* The latest of the blocks since the last one that was read.
LEMMA LatestBlocks ==
  ASSUME NEW last \in Nat, NEW head \in Nat, last <= head
  PROVE  LET new == Latest(Ascending(last + 1, head))
         IN /\ new \in Seq(last + 1 .. head) /\ Len(new) = Smaller(head - last, Window)
            /\ \A i, j \in 1 .. Len(new) : new[i] = new[j] => i = j
<1> DEFINE s == Ascending(last + 1, head)
           off == Larger(0, Len(s) - Window)
           new == SubSeq(s, off + 1, Len(s))
<1>1. /\ s \in Seq(last + 1 .. head) /\ Len(s) = head - last
      /\ \A i \in 1 .. head - last : s[i] = last + i
  <2>1. last + 1 \in Int /\ head \in Int /\ head - (last + 1) + 1 \in Nat
    OBVIOUS
  <2>2. /\ s \in Seq(last + 1 .. head) /\ Len(s) = head - (last + 1) + 1
        /\ \A i \in 1 .. head - (last + 1) + 1 : s[i] = (last + 1) + i - 1
    BY <2>1, AscendingSeq
  <2> HIDE DEF s
  <2>3. head - (last + 1) + 1 = head - last
    OBVIOUS
  <2>4. QED
    BY <2>2, <2>3
<1> HIDE DEF s
<1>2. off \in 0 .. Len(s) /\ Len(s) - off = Smaller(head - last, Window)
  <2>1. head - last \in Nat
    OBVIOUS
  <2>2. QED
    BY <1>1, <2>1, MonitorAssumption DEF Larger, Smaller
<1> HIDE DEF off
<1>a. off \in Nat /\ Len(s) \in Nat /\ head - last \in Nat /\ off <= Len(s)
  BY <1>1, <1>2
<1>3. \A i \in off + 1 .. Len(s) : s[i] \in last + 1 .. head
  BY <1>1, <1>a
<1>4. /\ new \in Seq(last + 1 .. head)
      /\ Len(new) = IF off + 1 <= Len(s) THEN Len(s) - (off + 1) + 1 ELSE 0
      /\ \A i \in 1 .. Len(s) - (off + 1) + 1 : new[i] = s[off + 1 + i - 1]
  <2>1. off + 1 \in Int /\ Len(s) \in Int
    BY <1>a
  <2>2. QED
    BY <1>3, <2>1, SubSeqProperties
<1> HIDE DEF new
<1>5. Len(new) = Len(s) - off
  <2>1. CASE off + 1 <= Len(s)
    BY <1>4, <1>a, <2>1
  <2>2. CASE ~(off + 1 <= Len(s))
    BY <1>4, <1>a, <2>2
  <2>3. QED
    BY <2>1, <2>2
<1>6. \A i \in 1 .. Len(new) : new[i] = last + off + i
  <2> SUFFICES ASSUME NEW i \in 1 .. Len(new) PROVE new[i] = last + off + i
    OBVIOUS
  <2>1. i \in 1 .. Len(s) - (off + 1) + 1
    BY <1>5, <1>a
  <2>2. off + i \in 1 .. head - last /\ off + 1 + i - 1 = off + i
    BY <1>1, <1>5, <1>a
  <2>3. new[i] = s[off + 1 + i - 1]
    BY <1>4, <2>1
  <2>4. s[off + i] = last + (off + i)
    BY <1>1, <2>2
  <2>5. QED
    BY <1>a, <2>2, <2>3, <2>4
<1>7. \A i, j \in 1 .. Len(new) : new[i] = new[j] => i = j
  BY <1>5, <1>6, <1>a
<1>8. QED
  BY <1>2, <1>4, <1>5, <1>7 DEF new, s, off, Latest

\* The rows that stay when room is made for some more.
LEMMA DrainedRows ==
  ASSUME NEW R, NEW items \in Seq(R), Distinct(items), NEW n \in Nat, n <= Window
  PROVE  /\ Drained(items, n) \in Seq(R) /\ Distinct(Drained(items, n))
         /\ Len(Drained(items, n)) + n <= Window
<1> DEFINE off == Larger(0, Len(items) - (Window - n))
<1>1. Len(items) \in Nat
  BY LenProperties
<1>2. off \in 0 .. Len(items) /\ Len(items) - off + n <= Window
  BY <1>1, MonitorAssumption DEF Larger
<1> HIDE DEF off
<1>3. off + 1 \in Nat \ {0}
  BY <1>2
<1>4. /\ SubSeq(items, off + 1, Len(items)) \in Seq(R) /\ Distinct(SubSeq(items, off + 1, Len(items)))
      /\ Len(SubSeq(items, off + 1, Len(items)))
           = IF off + 1 <= Len(items) THEN Len(items) - (off + 1) + 1 ELSE 0
  BY <1>1, <1>3, PartOfRows
<1>5. Drained(items, n) = SubSeq(items, off + 1, Len(items))
  BY DEF Drained, off
<1>6. QED
  BY <1>1, <1>2, <1>4, <1>5, MonitorAssumption

\* What a tick that went through leaves.
LEMMA AscendingRows ==
  ASSUME NEW last \in Nat, NEW head \in Nat, last <= head, head <= MaxBlock,
         NEW items \in Seq(Row(1, last)), Distinct(items), NEW status \in [Numbers -> Statuses]
  PROVE  LET new == Latest(Ascending(last + 1, head))
             all == Rows(new, status) \o Refreshed(Drained(items, Len(new)), status)
         IN all \in Seq(Row(1, head)) /\ Distinct(all) /\ Len(all) <= Window
<1> DEFINE new == Latest(Ascending(last + 1, head))
           rows == Rows(new, status)
           drained == Drained(items, Len(new))
           kept == Refreshed(drained, status)
<1>1. /\ new \in Seq(last + 1 .. head) /\ Len(new) = Smaller(head - last, Window)
      /\ \A i, j \in 1 .. Len(new) : new[i] = new[j] => i = j
  BY LatestBlocks
<1>2. Len(new) \in Nat /\ Len(new) <= Window
  BY <1>1, MonitorAssumption DEF Smaller
<1> HIDE DEF new
<1>3. drained \in Seq(Row(1, last)) /\ Distinct(drained) /\ Len(drained) + Len(new) <= Window
  BY <1>2, DrainedRows
<1> HIDE DEF drained
<1>4. rows \in Seq(Row(last + 1, head)) /\ Distinct(rows) /\ Len(rows) = Len(new)
  <2> DEFINE lo == last + 1
  <2>1. lo \in Nat \ {0} /\ new \in Seq(lo .. head)
    BY <1>1
  <2> HIDE DEF lo
  <2>2. rows \in Seq(Row(lo, head)) /\ Distinct(rows) /\ Len(rows) = Len(new)
    BY <1>1, <2>1, RowsOf
  <2>3. QED
    BY <2>2 DEF lo
<1>5. kept \in Seq(Row(1, last)) /\ SameNumbers(kept, drained)
  <2>1. last <= MaxBlock
    BY MonitorAssumption
  <2>2. QED
    BY <1>3, <2>1, RefreshedRows
<1>6. Distinct(kept) /\ Len(kept) = Len(drained)
  BY <1>3, <1>5, SameNumbersDistinct DEF SameNumbers
<1> HIDE DEF rows, kept
<1>7. /\ rows \o kept \in Seq(Row(1, head)) /\ Distinct(rows \o kept)
      /\ Len(rows \o kept) = Len(rows) + Len(kept)
  BY <1>4, <1>5, <1>6, Joined
<1>8. Len(drained) \in Nat
  BY <1>3, LenProperties
<1>9. Len(rows \o kept) <= Window
  BY <1>2, <1>3, <1>4, <1>6, <1>7, <1>8, MonitorAssumption
<1>10. QED
  BY <1>7, <1>9 DEF rows, kept, drained, new

\* Every way a tick of such a table ends leaves a window.
LEMMA AscendingWindow ==
  ASSUME Windowed, NEW w \in Chains, IsTable(tables[w]), NEW status \in [Numbers -> Statuses],
         NEW stops \in SUBSET (tables[w].last .. chain), AscendingTick(w, chain, stops, status)
  PROVE  \E table, ok : Refresh(w, table, ok) /\ IsWindow(table, chain)
<1> DEFINE new == Latest(Ascending(tables[w].last + 1, chain))
           all == Rows(new, status) \o Refreshed(Drained(tables[w].items, Len(new)), status)
           table == [tables[w] EXCEPT !.last = chain, !.items = all]
<1>0. IsWindow(tables[w], chain) /\ chain \in Nat /\ chain <= MaxBlock
  BY DEF Windowed
<1>1. ASSUME NEW last \in stops, Refresh(w, [tables[w] EXCEPT !.last = last], FALSE)
      PROVE  IsWindow([tables[w] EXCEPT !.last = last], chain)
  BY <1>0, FailedFetch
<1>2. all \in Seq(Row(1, chain)) /\ Distinct(all) /\ Len(all) <= Window
  BY <1>0, AscendingRows DEF IsWindow
<1> HIDE DEF all
<1>3. table.last = chain /\ table.items = all
  BY FetchedFields
<1>4. IsWindow(table, chain)
  BY <1>0, <1>2, <1>3 DEF IsWindow
<1>5. \/ \E last \in stops : Refresh(w, [tables[w] EXCEPT !.last = last], FALSE)
      \/ Refresh(w, table, TRUE)
  BY Zenon DEF AscendingTick, all
<1> HIDE DEF table
<1>6. QED
  BY <1>1, <1>4, <1>5, Zenon

LEMMA SmallerNat ==
  ASSUME NEW m \in Nat, NEW n \in Nat
  PROVE  Smaller(m, n) \in Nat /\ Smaller(m, n) <= m /\ Smaller(m, n) <= n
BY DEF Smaller

\* A refresh of the statuses that ends half way.
LEMMA PartlyRefreshed ==
  ASSUME NEW hi \in Nat, hi <= MaxBlock, NEW kept \in Seq(Row(1, hi)), Distinct(kept),
         NEW status \in [Numbers -> Statuses], NEW read \in 0 .. Len(kept) - 1
  PROVE  LET all == Refreshed(SubSeq(kept, 1, read), status) \o SubSeq(kept, read + 1, Len(kept))
         IN all \in Seq(Row(1, hi)) /\ Distinct(all) /\ Len(all) = Len(kept)
<1> DEFINE top == SubSeq(kept, 1, read)
           rest == SubSeq(kept, read + 1, Len(kept))
           fresh == Refreshed(top, status)
           all == fresh \o rest
<1>1. Len(kept) \in Nat /\ read \in Nat /\ read < Len(kept)
  BY LenProperties
<1>2. /\ top \in Seq(Row(1, hi)) /\ Len(top) = read
      /\ \A i \in 1 .. read : top[i] = kept[i]
  <2>1. 1 \in Nat \ {0} /\ read \in Nat /\ read <= Len(kept)
    BY <1>1
  <2>2. /\ top \in Seq(Row(1, hi))
        /\ Len(top) = IF 1 <= read THEN read - 1 + 1 ELSE 0
        /\ \A i \in 1 .. read - 1 + 1 : top[i] = kept[1 + i - 1]
    BY <2>1, PartOfRows
  <2> HIDE DEF top
  <2>3. Len(top) = read
    BY <1>1, <2>2
  <2>4. ASSUME NEW i \in 1 .. read PROVE top[i] = kept[i]
    <3>1. i \in 1 .. read - 1 + 1 /\ 1 + i - 1 = i
      BY <1>1
    <3>2. QED
      BY <2>2, <3>1
  <2>5. QED
    BY <2>2, <2>3, <2>4
<1>3. /\ rest \in Seq(Row(1, hi)) /\ Len(rest) = Len(kept) - read
      /\ \A i \in 1 .. Len(kept) - read : rest[i] = kept[read + i]
  <2>1. read + 1 \in Nat \ {0} /\ Len(kept) \in Nat /\ Len(kept) <= Len(kept) /\ read + 1 <= Len(kept)
    BY <1>1
  <2> DEFINE m == read + 1
  <2>2. m \in Nat \ {0} /\ m <= Len(kept)
    BY <2>1
  <2> HIDE DEF m
  <2>3. /\ SubSeq(kept, m, Len(kept)) \in Seq(Row(1, hi))
        /\ Len(SubSeq(kept, m, Len(kept))) = IF m <= Len(kept) THEN Len(kept) - m + 1 ELSE 0
        /\ \A i \in 1 .. Len(kept) - m + 1 : SubSeq(kept, m, Len(kept))[i] = kept[m + i - 1]
    BY <2>1, <2>2, PartOfRows
  <2>4. rest = SubSeq(kept, m, Len(kept))
    BY DEF m
  <2> HIDE DEF rest
  <2>5. Len(rest) = Len(kept) - read
    BY <1>1, <2>2, <2>3, <2>4 DEF m
  <2>6. ASSUME NEW i \in 1 .. Len(kept) - read PROVE rest[i] = kept[read + i]
    <3>1. i \in 1 .. Len(kept) - m + 1 /\ m + i - 1 = read + i
      BY <1>1 DEF m
    <3>2. QED
      BY <2>3, <2>4, <3>1
  <2>7. QED
    BY <2>3, <2>4, <2>5, <2>6
<1> HIDE DEF top, rest
<1>4. fresh \in Seq(Row(1, hi)) /\ SameNumbers(fresh, top)
  BY <1>2, RefreshedRows
<1> HIDE DEF fresh
<1>5. /\ all \in Seq(Row(1, hi)) /\ Len(all) = Len(fresh) + Len(rest)
      /\ \A i \in 1 .. Len(fresh) + Len(rest) :
            all[i] = IF i <= Len(fresh) THEN fresh[i] ELSE rest[i - Len(fresh)]
  BY <1>3, <1>4, ConcatProperties
<1>6. Len(fresh) = read /\ Len(all) = Len(kept)
  BY <1>1, <1>2, <1>3, <1>4, <1>5 DEF SameNumbers
<1> HIDE DEF all
<1>7. SameNumbers(all, kept)
  <2> SUFFICES ASSUME NEW i \in 1 .. Len(kept) PROVE all[i].number = kept[i].number
    BY <1>6 DEF SameNumbers
  <2>1. i \in 1 .. Len(fresh) + Len(rest)
    BY <1>1, <1>3, <1>6
  <2>2. CASE i <= read
    <3>1. i \in 1 .. read
      BY <1>1, <2>2
    <3>2. all[i] = fresh[i]
      BY <1>5, <1>6, <2>1, <2>2
    <3>3. QED
      BY <1>2, <1>4, <1>6, <3>1, <3>2 DEF SameNumbers
  <2>3. CASE ~(i <= read)
    <3>1. i - read \in 1 .. Len(kept) - read /\ read + (i - read) = i
      BY <1>1, <2>3
    <3>2. all[i] = rest[i - read]
      BY <1>5, <1>6, <2>1, <2>3
    <3>3. rest[i - read] = kept[read + (i - read)]
      BY <1>3, <3>1
    <3>4. QED
      BY <3>1, <3>2, <3>3
  <2>4. QED
    BY <2>2, <2>3
<1>8. Distinct(all)
  BY <1>5, <1>7, SameNumbersDistinct DEF all
<1>9. QED
  BY <1>5, <1>6, <1>8 DEF all, fresh, top, rest

LEMMA MessagesWindow ==
  ASSUME Windowed, NEW w \in Chains, IsTable(tables[w]), NEW status \in [Numbers -> Statuses],
         MessagesTick(w, chain, status)
  PROVE  \E table, ok : Refresh(w, table, ok) /\ IsWindow(table, chain)
<1> DEFINE n == Smaller(chain - tables[w].last, Window)
           kept == Drained(tables[w].items, n)
<1>0. IsWindow(tables[w], chain) /\ chain \in Nat /\ chain <= MaxBlock
  BY DEF Windowed
<1>1. CASE AscendingTick(w, chain, ChunkEnds(tables[w].last, chain), status)
  <2>1. ChunkEnds(tables[w].last, chain) \in SUBSET (tables[w].last .. chain)
    BY DEF ChunkEnds
  <2>2. QED
    BY <1>1, <2>1, AscendingWindow
<1>2. n \in Nat /\ n <= Window
  <2>1. chain - tables[w].last \in Nat
    BY <1>0 DEF IsWindow
  <2>2. QED
    BY <2>1, SmallerNat, MonitorAssumption
<1> HIDE DEF n
<1>3. kept \in Seq(Row(1, tables[w].last)) /\ Distinct(kept) /\ Len(kept) + n <= Window
  BY <1>0, <1>2, DrainedRows DEF IsWindow
<1> HIDE DEF kept
<1>4. kept \in Seq(Row(1, chain)) /\ Len(kept) \in Nat /\ Len(kept) <= Window
  <2>1. kept \in Seq(Row(1, chain))
    BY <1>0, <1>3, WiderRow DEF IsWindow
  <2>2. QED
    BY <1>2, <1>3, <2>1, LenProperties, MonitorAssumption
<1>5. ASSUME NEW read \in 0 .. Len(kept) - 1,
             Refresh(w, [tables[w] EXCEPT !.last = chain,
                          !.items = Refreshed(SubSeq(kept, 1, read), status)
                                      \o SubSeq(kept, read + 1, Len(kept))], FALSE)
      PROVE  \E table, ok : Refresh(w, table, ok) /\ IsWindow(table, chain)
  <2> DEFINE all == Refreshed(SubSeq(kept, 1, read), status) \o SubSeq(kept, read + 1, Len(kept))
             table == [tables[w] EXCEPT !.last = chain, !.items = all]
  <2>1. all \in Seq(Row(1, chain)) /\ Distinct(all) /\ Len(all) = Len(kept)
    BY <1>0, <1>3, <1>4, PartlyRefreshed
  <2> HIDE DEF all
  <2>2. table.last = chain /\ table.items = all
    BY FetchedFields
  <2>3. IsWindow(table, chain)
    BY <1>0, <1>4, <2>1, <2>2 DEF IsWindow
  <2>4. Refresh(w, table, FALSE)
    BY <1>5 DEF all
  <2> HIDE DEF table
  <2>5. QED
    BY <2>3, <2>4, Zenon
<1>6. \/ AscendingTick(w, chain, ChunkEnds(tables[w].last, chain), status)
      \/ \E read \in 0 .. Len(kept) - 1 :
             Refresh(w, [tables[w] EXCEPT !.last = chain,
                          !.items = Refreshed(SubSeq(kept, 1, read), status)
                                      \o SubSeq(kept, read + 1, Len(kept))], FALSE)
  BY Zenon DEF MessagesTick, kept, n
<1>7. QED
  BY <1>1, <1>5, <1>6, Zenon

\* The batches above the progress, or above the window where it is further up.
LEMMA NewBatches ==
  ASSUME NEW last \in Nat, NEW head \in Nat, last <= head
  PROVE  LET from == Larger(last, head - Window)
             new == Descending(head, from + 1)
         IN /\ from \in last .. head /\ head - from <= Window
            /\ from = last \/ head - from = Window
            /\ new \in Seq(last + 1 .. head) /\ Len(new) = head - from
            /\ \A i \in 1 .. Len(new) : new[i] = head - i + 1
            /\ \A i, j \in 1 .. Len(new) : new[i] = new[j] => i = j
<1> DEFINE from == Larger(last, head - Window)
           low == from + 1
           new == Descending(head, low)
<1>1. from \in last .. head /\ head - from <= Window /\ (from = last \/ head - from = Window)
  BY MonitorAssumption DEF Larger
<1> HIDE DEF from
<1>2. low \in Int /\ head \in Int /\ head - low + 1 \in Nat /\ head - low + 1 = head - from /\ low >= last + 1
  BY <1>1
<1> HIDE DEF low
<1>3. /\ new \in Seq(low .. head) /\ Len(new) = head - low + 1
      /\ \A i \in 1 .. head - low + 1 : new[i] = head - i + 1
  BY <1>2, DescendingSeq
<1> HIDE DEF new
<1>4. low .. head \subseteq last + 1 .. head
  BY <1>2
<1>5. new \in Seq(last + 1 .. head)
  BY <1>3, <1>4, SeqMonotonic
<1>6. Len(new) = head - from /\ \A i \in 1 .. Len(new) : new[i] = head - i + 1
  BY <1>2, <1>3
<1>7. \A i, j \in 1 .. Len(new) : new[i] = new[j] => i = j
  BY <1>1, <1>6
<1>8. QED
  BY <1>1, <1>5, <1>6, <1>7 DEF new, low, from

\* The rows that stay when room is made at the end.
LEMMA TruncatedRows ==
  ASSUME NEW R, NEW items \in Seq(R), Distinct(items), NEW n \in Nat, n <= Window
  PROVE  /\ Truncated(items, n) \in Seq(R) /\ Distinct(Truncated(items, n))
         /\ Len(Truncated(items, n)) = Smaller(Len(items), Window - n)
         /\ \A i \in 1 .. Len(Truncated(items, n)) : Truncated(items, n)[i] = items[i]
<1> DEFINE to == Smaller(Len(items), Window - n)
           kept == SubSeq(items, 1, to)
<1>1. Len(items) \in Nat /\ Window - n \in Nat
  BY LenProperties, MonitorAssumption
<1>2. to \in Nat /\ to <= Len(items)
  BY <1>1, SmallerNat
<1> HIDE DEF to
<1>3. /\ kept \in Seq(R) /\ Distinct(kept)
      /\ Len(kept) = IF 1 <= to THEN to - 1 + 1 ELSE 0
      /\ \A i \in 1 .. to - 1 + 1 : kept[i] = items[1 + i - 1]
  <2>1. 1 \in Nat \ {0}
    OBVIOUS
  <2>2. QED
    BY <1>2, <2>1, PartOfRows
<1> HIDE DEF kept
<1>4. Len(kept) = to
  BY <1>2, <1>3
<1>5. ASSUME NEW i \in 1 .. Len(kept) PROVE kept[i] = items[i]
  <2>1. i \in 1 .. to - 1 + 1 /\ 1 + i - 1 = i
    BY <1>2, <1>4
  <2>2. QED
    BY <1>3, <2>1
<1>6. QED
  BY <1>3, <1>4, <1>5 DEF Truncated, kept, to

\* A tick of the batches that went through leaves a window, and one without a gap
\* where there was none.
LEMMA BatchRows ==
  ASSUME NEW last \in Nat, NEW head \in Nat, last <= head, head <= MaxBlock,
         NEW items \in Seq(Row(1, last)), Distinct(items), Len(items) <= Window
  PROVE  LET new == Descending(head, Larger(last, head - Window) + 1)
             kept == Truncated(items, Len(new))
             all == Rows(new, BatchStatus) \o RefreshedBatches(kept)
         IN /\ kept \in Seq(Row(1, last)) /\ Distinct(kept) /\ Len(kept) <= Window
            /\ all \in Seq(Row(1, head)) /\ Distinct(all) /\ Len(all) <= Window
            /\ (/\ Len(items) = Smaller(Window, last)
                /\ \A i \in 1 .. Len(items) : items[i].number = last - i + 1)
               => (/\ Len(all) = Smaller(Window, head)
                   /\ \A i \in 1 .. Len(all) : all[i].number = head - i + 1)
<1> DEFINE from == Larger(last, head - Window)
           new == Descending(head, from + 1)
           kept == Truncated(items, Len(new))
           rows == Rows(new, BatchStatus)
           stay == RefreshedBatches(kept)
           all == rows \o stay
<1>1. /\ from \in last .. head /\ head - from <= Window
      /\ from = last \/ head - from = Window
      /\ new \in Seq(last + 1 .. head) /\ Len(new) = head - from
      /\ \A i \in 1 .. Len(new) : new[i] = head - i + 1
      /\ \A i, j \in 1 .. Len(new) : new[i] = new[j] => i = j
  BY NewBatches
<1> HIDE DEF from, new
<1>2. Len(new) \in Nat /\ Len(new) <= Window /\ Len(items) \in Nat
  BY <1>1, LenProperties
<1>3. /\ kept \in Seq(Row(1, last)) /\ Distinct(kept)
      /\ Len(kept) = Smaller(Len(items), Window - Len(new))
      /\ \A i \in 1 .. Len(kept) : kept[i] = items[i]
  BY <1>2, TruncatedRows
<1> HIDE DEF kept
<1>4. Len(kept) \in Nat /\ Len(kept) <= Window /\ Len(kept) + Len(new) <= Window
  <2>1. Window - Len(new) \in Nat
    BY <1>2, MonitorAssumption
  <2>2. QED
    BY <1>2, <1>3, <2>1, MonitorAssumption DEF Smaller
<1>5. /\ rows \in Seq(Row(last + 1, head)) /\ Distinct(rows) /\ Len(rows) = Len(new)
      /\ \A i \in 1 .. Len(new) : rows[i].number = new[i]
  <2> DEFINE lo == last + 1
  <2>1. lo \in Nat \ {0} /\ new \in Seq(lo .. head)
    BY <1>1
  <2> HIDE DEF lo
  <2> DEFINE status == BatchStatus
  <2>a. status \in [Numbers -> Statuses] /\ rows = Rows(new, status)
    BY StatusTypes
  <2> HIDE DEF status, rows
  <2>2. /\ rows \in Seq(Row(lo, head)) /\ Distinct(rows) /\ Len(rows) = Len(new)
        /\ \A i \in 1 .. Len(new) : rows[i].number = new[i]
    <3>1. \A i, j \in 1 .. Len(new) : new[i] = new[j] => i = j
      BY <1>1
    <3>2. /\ Rows(new, status) \in Seq(Row(lo, head)) /\ Distinct(Rows(new, status))
          /\ Len(Rows(new, status)) = Len(new)
          /\ \A i \in 1 .. Len(new) : Rows(new, status)[i].number = new[i]
      BY <2>1, <2>a, <3>1, RowsOf
    <3>3. QED
      BY <2>a, <3>2
  <2>3. QED
    BY <2>2 DEF lo
<1>6. stay \in Seq(Row(1, last)) /\ SameNumbers(stay, kept)
  <2>1. last <= MaxBlock
    BY MonitorAssumption
  <2>2. QED
    BY <1>3, <2>1, RefreshedRows, StatusTypes
<1>7. Distinct(stay) /\ Len(stay) = Len(kept)
  BY <1>3, <1>6, SameNumbersDistinct DEF SameNumbers
<1> HIDE DEF rows, stay
<1>8. /\ all \in Seq(Row(1, head)) /\ Distinct(all) /\ Len(all) = Len(rows) + Len(stay)
      /\ \A i \in 1 .. Len(rows) + Len(stay) :
            all[i] = IF i <= Len(rows) THEN rows[i] ELSE stay[i - Len(rows)]
  BY <1>5, <1>6, <1>7, Joined
<1> HIDE DEF all
<1>9. Len(all) = Len(new) + Len(kept) /\ Len(all) <= Window
  BY <1>2, <1>4, <1>5, <1>7, <1>8, MonitorAssumption
<1>10. ASSUME Len(items) = Smaller(Window, last),
              \A i \in 1 .. Len(items) : items[i].number = last - i + 1
       PROVE  /\ Len(all) = Smaller(Window, head)
              /\ \A i \in 1 .. Len(all) : all[i].number = head - i + 1
  <2>1. Len(kept) = 0 \/ from = last
    <3>1. CASE from = last
      BY <3>1
    <3>2. CASE head - from = Window
      <4>1. Len(new) = Window
        BY <1>1, <3>2
      <4>2. QED
        BY <1>4, <4>1, MonitorAssumption
    <3>3. QED
      BY <1>1, <3>1, <3>2
  <2>2. Len(all) = Smaller(Window, head)
    BY <1>1, <1>2, <1>3, <1>9, <1>10, MonitorAssumption DEF Smaller
  <2>3. ASSUME NEW i \in 1 .. Len(all) PROVE all[i].number = head - i + 1
    <3>1. i \in 1 .. Len(rows) + Len(stay)
      BY <1>8
    <3>2. CASE i <= Len(new)
      <4>1. i \in 1 .. Len(new) /\ all[i] = rows[i]
        BY <1>2, <1>5, <1>8, <3>1, <3>2
      <4>2. QED
        BY <1>1, <1>5, <4>1
    <3>3. CASE ~(i <= Len(new))
      <4>1. i - Len(new) \in 1 .. Len(kept) /\ all[i] = stay[i - Len(new)]
        BY <1>2, <1>4, <1>5, <1>7, <1>8, <3>1, <3>3
      <4>2. from = last /\ Len(new) = head - last
        BY <1>1, <1>4, <2>1, <4>1
      <4>3. stay[i - Len(new)].number = kept[i - Len(new)].number
        BY <1>6, <1>7, <4>1 DEF SameNumbers
      <4>4. i - Len(new) \in 1 .. Len(items) /\ kept[i - Len(new)] = items[i - Len(new)]
        <5>1. Len(kept) <= Len(items)
          <6>1. Window - Len(new) \in Nat
            BY <1>2, MonitorAssumption
          <6>2. QED
            BY <1>2, <1>3, <6>1, SmallerNat
        <5>2. QED
          BY <1>2, <1>3, <1>4, <4>1, <5>1
      <4>5. items[i - Len(new)].number = last - (i - Len(new)) + 1
        BY <1>10, <4>4
      <4>6. last - (i - Len(new)) + 1 = head - i + 1
        BY <1>2, <4>2
      <4>7. QED
        BY <4>1, <4>3, <4>4, <4>5, <4>6
    <3>4. QED
      BY <3>2, <3>3
  <2>4. QED
    BY <2>2, <2>3
<1>11. QED
  BY <1>3, <1>4, <1>8, <1>9, <1>10 DEF all, rows, stay, kept, new, from

LEMMA BatchesWindow ==
  ASSUME Windowed, IsTable(tables["batches"]), BatchesTick
  PROVE  \E table, ok : /\ Refresh("batches", table, ok) /\ IsWindow(table, chain)
                        /\ ok /\ Unbroken(tables["batches"]) => Unbroken(table)
<1> DEFINE old == tables["batches"]
           from == Larger(old.last, chain - Window)
           new == Descending(chain, from + 1)
           kept == Truncated(old.items, Len(new))
           all == Rows(new, BatchStatus) \o RefreshedBatches(kept)
           Goal == \E table, ok : /\ Refresh("batches", table, ok) /\ IsWindow(table, chain)
                                  /\ ok /\ Unbroken(old) => Unbroken(table)
<1>0. /\ chain \in Nat /\ chain <= MaxBlock /\ IsWindow(old, chain)
      /\ old.last \in Nat /\ old.last <= chain /\ old.items \in Seq(Row(1, old.last))
      /\ Distinct(old.items) /\ Len(old.items) <= Window
  BY DEF Windowed, Chains, IsWindow
<1>1. from \in old.last .. chain
  BY <1>0, NewBatches
<1>2. /\ kept \in Seq(Row(1, old.last)) /\ Distinct(kept) /\ Len(kept) <= Window
      /\ all \in Seq(Row(1, chain)) /\ Distinct(all) /\ Len(all) <= Window
      /\ (/\ Len(old.items) = Smaller(Window, old.last)
          /\ \A i \in 1 .. Len(old.items) : old.items[i].number = old.last - i + 1)
         => (/\ Len(all) = Smaller(Window, chain)
             /\ \A i \in 1 .. Len(all) : all[i].number = chain - i + 1)
  BY <1>0, BatchRows
<1>3. \/ Refresh("batches", old, FALSE)
      \/ \E last \in from .. chain : Refresh("batches", [old EXCEPT !.last = last], FALSE)
      \/ Refresh("batches", [old EXCEPT !.last = chain, !.items = kept], FALSE)
      \/ Refresh("batches", [old EXCEPT !.last = chain, !.items = all], TRUE)
  BY Zenon DEF BatchesTick
<1>4. IsTable(old)
  OBVIOUS
<1> HIDE DEF old, from, new, kept, all
<1>5. ASSUME Refresh("batches", old, FALSE)
      PROVE  Goal
  BY <1>0, <1>5, Zenon
<1>6. ASSUME NEW last \in from .. chain, Refresh("batches", [old EXCEPT !.last = last], FALSE)
      PROVE  Goal
  <2>1. last \in old.last .. chain
    BY <1>0, <1>1
  <2>2. IsWindow([old EXCEPT !.last = last], chain)
    BY <1>0, <1>4, <2>1, FailedFetch
  <2>3. QED
    BY <1>6, <2>2, Zenon
<1>7. ASSUME Refresh("batches", [old EXCEPT !.last = chain, !.items = kept], FALSE)
      PROVE  Goal
  <2> DEFINE table == [old EXCEPT !.last = chain, !.items = kept]
  <2>1. table.last = chain /\ table.items = kept
    BY <1>4, FetchedFields
  <2>2. kept \in Seq(Row(1, chain))
    BY <1>0, <1>2, WiderRow
  <2>3. IsWindow(table, chain)
    BY <1>0, <1>2, <2>1, <2>2 DEF IsWindow
  <2>4. QED
    BY <1>7, <2>3, Zenon
<1>8. ASSUME Refresh("batches", [old EXCEPT !.last = chain, !.items = all], TRUE)
      PROVE  Goal
  <2> DEFINE table == [old EXCEPT !.last = chain, !.items = all]
  <2>1. table.last = chain /\ table.items = all
    BY <1>4, FetchedFields
  <2>2. IsWindow(table, chain)
    BY <1>0, <1>2, <2>1 DEF IsWindow
  <2>3. Unbroken(old) => Unbroken(table)
    BY <1>2, <2>1 DEF Unbroken
  <2>4. QED
    BY <1>8, <2>2, <2>3, Zenon
<1>9. Goal
  BY <1>3, <1>5, <1>6, <1>7, <1>8, Zenon
<1>10. QED
  BY <1>9 DEF old

\* A table that was refreshed to a window, or another widget.
LEMMA RefreshWindows ==
  ASSUME Windowed, tables = [w \in Names |-> tables[w]], NEW w \in Names, NEW table, NEW ok,
         Refresh(w, table, ok), w \in Chains => IsWindow(table, chain),
         w = "batches" /\ ok /\ Unbroken(tables["batches"]) => Unbroken(table)
  PROVE  Windowed'
<1>1. /\ chain' = chain /\ tables' = [tables EXCEPT ![w] = table]
      /\ (ok => failures' = failures) /\ (~ok => failures' = failures + 1)
  BY DEF Refresh, Fails
<1>2. \A x \in Names : tables'[x] = (IF x = w THEN table ELSE tables[x])
  BY <1>1, Zenon
<1>3. Chains \subseteq Names /\ "batches" \in Chains
  BY DEF Chains, Names, Widgets
<1>4. ASSUME NEW x \in Chains PROVE IsWindow(tables'[x], chain')
  BY <1>1, <1>2, <1>3 DEF Windowed
<1>5. failures' \in Nat /\ (failures' = 0 => ok /\ failures = 0)
  BY <1>1 DEF Windowed
<1>6. failures' = 0 => Unbroken(tables'["batches"])
  BY <1>2, <1>3, <1>5 DEF Windowed
<1>7. QED
  BY <1>1, <1>4, <1>5, <1>6 DEF Windowed

\* Keys move cursors and borders only.
LEMMA EventKeeps ==
  ASSUME OneBorder, handle_event
  PROVE  \A w \in Names : tables'[w].last = tables[w].last /\ tables'[w].items = tables[w].items
<1> DEFINE Goal == \A w \in Names : tables'[w].last = tables[w].last /\ tables'[w].items = tables[w].items
<1>1. PICK key \in Keys : on_key_event(key)
  BY DEF handle_event
<1>2. tables = [w \in Names |-> tables[w]] /\ \A w \in Names : IsTable(tables[w])
  BY DEF OneBorder, Bordered
<1>3. ScrolledTable \in Names
  <2>1. Selected \in Names
    BY ScrollableTables DEF OneBorder, Selected
  <2>2. "rich_accounts" \in Names
    BY DEF Names, Widgets
  <2>3. QED
    BY <2>1, <2>2 DEF ScrolledTable
<1>4. ASSUME NEW f, f = [w \in Names |-> f[w]], \A w \in Names : IsTable(f[w]), NEW o \in Names,
             NEW u, IsTable(u), u.last = f[o].last, u.items = f[o].items, NEW g, g = [f EXCEPT ![o] = u]
      PROVE  /\ g = [w \in Names |-> g[w]] /\ \A w \in Names : IsTable(g[w])
             /\ \A w \in Names : g[w].last = f[w].last /\ g[w].items = f[w].items
  <2>1. /\ g = [w \in Names |-> g[w]]
        /\ \A w \in Names : IsTable(g[w]) /\ g[w] = (IF w = o THEN u ELSE f[w])
    BY <1>4, OneReplaced
  <2>2. QED
    BY <1>4, <2>1
<1>5. ASSUME NEW w \in Names, ScrollUp(w) \/ ScrollDown(w)
      PROVE  Goal
  <2>1. \E x : tables' = [tables EXCEPT ![w].cursor = x]
    BY <1>5 DEF ScrollUp, ScrollDown
  <2>2. PICK x : tables' = [tables EXCEPT ![w] = [tables[w] EXCEPT !.cursor = x]]
    BY <2>1
  <2> DEFINE u == [tables[w] EXCEPT !.cursor = x]
  <2>3. u.last = tables[w].last /\ u.items = tables[w].items
    BY <1>2, OthersFields
  <2>4. IsTable(u)
    BY <1>2, FieldOfTable
  <2>5. tables' = [tables EXCEPT ![w] = u]
    BY <2>2
  <2> HIDE DEF u
  <2>6. QED
    BY <1>2, <1>4, <2>3, <2>4, <2>5
<1>6. ASSUME NEW step \in {1, 4}, SelectTable(step)
      PROVE  Goal
  <2> DEFINE widget == (ui.selected_widget + step) % 5
             new == Scrollable[widget + 1]
             old == Selected
             first == [tables EXCEPT ![old] = [@ EXCEPT !.selected = FALSE]]
  <2>1. new \in Names /\ old \in Names
    BY ScrollableTables DEF OneBorder, Selected
  <2>2. tables' = [first EXCEPT ![new] = [@ EXCEPT !.selected = TRUE]]
    BY <1>6, ScrollableTables DEF SelectTable
  <2> HIDE DEF widget, new, old
  <2>3. /\ first = [w \in Names |-> first[w]] /\ \A w \in Names : IsTable(first[w])
        /\ \A w \in Names : first[w].last = tables[w].last /\ first[w].items = tables[w].items
    <3> DEFINE u == [tables[old] EXCEPT !.selected = FALSE]
    <3>1. u.last = tables[old].last /\ u.items = tables[old].items
      BY <1>2, <2>1, OthersFields
    <3>2. IsTable(u)
      BY <1>2, <2>1, FieldOfTable
    <3>3. first = [tables EXCEPT ![old] = u]
      OBVIOUS
    <3> HIDE DEF u, first
    <3>4. QED
      BY <1>2, <1>4, <2>1, <3>1, <3>2, <3>3
  <2> HIDE DEF first
  <2>4. \A w \in Names : tables'[w].last = first[w].last /\ tables'[w].items = first[w].items
    <3> DEFINE u == [first[new] EXCEPT !.selected = TRUE]
    <3>1. u.last = first[new].last /\ u.items = first[new].items
      BY <2>1, <2>3, OthersFields
    <3>2. IsTable(u)
      BY <2>1, <2>3, FieldOfTable
    <3>3. tables' = [first EXCEPT ![new] = u]
      BY <2>2
    <3> HIDE DEF u
    <3>4. QED
      BY <1>4, <2>1, <2>3, <3>1, <3>2, <3>3
  <2>5. QED
    BY <2>3, <2>4
<1>7. CASE SelectTable(IF key = "Down" THEN 1 ELSE Len(Scrollable) - 1)
  <2>1. (IF key = "Down" THEN 1 ELSE Len(Scrollable) - 1) \in {1, 4}
    BY ScrollableTables
  <2>2. QED
    BY <1>6, <1>7, <2>1
<1>8. CASE UNCHANGED tables
  BY <1>8
<1>9. QED
  BY <1>1, <1>3, <1>5, <1>7, <1>8 DEF on_key_event

LEMMA SameWindows ==
  ASSUME Windowed, chain' \in chain .. MaxBlock, failures' = failures,
         \A w \in Names : tables'[w].last = tables[w].last /\ tables'[w].items = tables[w].items
  PROVE  Windowed'
<1>1. Chains \subseteq Names /\ "batches" \in Chains
  BY DEF Chains, Names, Widgets
<1>2. chain \in Nat /\ chain' \in Nat /\ chain <= chain' /\ chain' <= MaxBlock
  BY MonitorAssumption DEF Windowed
<1>3. ASSUME NEW w \in Chains PROVE IsWindow(tables'[w], chain')
  BY <1>1, <1>2 DEF Windowed, IsWindow
<1>4. failures' = 0 => Unbroken(tables'["batches"])
  BY <1>1 DEF Windowed, Unbroken
<1>5. failures' \in Nat
  BY DEF Windowed
<1>6. QED
  BY <1>2, <1>3, <1>4, <1>5 DEF Windowed

\* The step of the widgets that are no table of a chain.
LEMMA OtherWidgets ==
  ASSUME Windowed, tables = [w \in Names |-> tables[w]], NEW w \in Names \ Chains, NEW items,
         Reread(w, items)
  PROVE  Windowed'
<1>1. w # "batches"
  BY DEF Chains
<1>2. QED
  BY <1>1, RefreshWindows, Zenon DEF Reread

LEMMA TickWindows ==
  ASSUME OneBorder, Windowed, Tick
  PROVE  Windowed'
<1>1. /\ "node_status" \in Names \ Chains /\ "global_chain_status" \in Names \ Chains
      /\ "mempool" \in Names \ Chains /\ "rich_accounts" \in Names \ Chains
      /\ "batches" \in Chains /\ "blocks" \in Chains /\ "l1_to_l2_messages" \in Chains
      /\ "l2_to_l1_messages" \in Chains /\ Chains \subseteq Names
  BY DEF Names, Widgets, Chains
<1>2. tables = [w \in Names |-> tables[w]] /\ \A w \in Names : IsTable(tables[w])
  BY DEF OneBorder, Bordered
<1>3. CASE NodeStatusTick \/ ChainStatusTick \/ MempoolTick \/ RichAccountsTick
  BY <1>1, <1>2, <1>3, OtherWidgets
     DEF NodeStatusTick, ChainStatusTick, MempoolTick, RichAccountsTick
<1>4. CASE BatchesTick
  <2>1. PICK table, ok : /\ Refresh("batches", table, ok) /\ IsWindow(table, chain)
                         /\ ok /\ Unbroken(tables["batches"]) => Unbroken(table)
    BY <1>1, <1>2, <1>4, BatchesWindow
  <2>2. QED
    BY <1>1, <1>2, <2>1, RefreshWindows
<1>5. ASSUME NEW w \in Chains, w # "batches",
             \E table, ok : Refresh(w, table, ok) /\ IsWindow(table, chain)
      PROVE  Windowed'
  BY <1>1, <1>2, <1>5, RefreshWindows
<1>6. CASE BlocksTick
  <2>1. AscendingTick("blocks", chain, tables["blocks"].last .. chain, [b \in Numbers |-> ""])
    BY <1>6 DEF BlocksTick
  <2>2. \E table, ok : Refresh("blocks", table, ok) /\ IsWindow(table, chain)
    BY <1>1, <1>2, <2>1, StatusTypes, AscendingWindow
  <2>3. QED
    BY <1>1, <1>5, <2>2
<1>7. CASE L1ToL2MessagesTick
  <2>1. \E table, ok : Refresh("l1_to_l2_messages", table, ok) /\ IsWindow(table, chain)
    BY <1>1, <1>2, <1>7, StatusTypes, MessagesWindow DEF L1ToL2MessagesTick
  <2>2. QED
    BY <1>1, <1>5, <2>1
<1>8. CASE L2ToL1MessagesTick
  <2>1. \E table, ok : Refresh("l2_to_l1_messages", table, ok) /\ IsWindow(table, chain)
    BY <1>1, <1>2, <1>8, StatusTypes, MessagesWindow DEF L2ToL1MessagesTick
  <2>2. QED
    BY <1>1, <1>5, <2>1
<1>9. QED
  BY <1>3, <1>4, <1>6, <1>7, <1>8 DEF Tick

LEMMA WindowedStep ==
  ASSUME OneBorder, Windowed, [Next]_vars
  PROVE  Windowed'
<1>1. CASE Tick
  BY <1>1, TickWindows
<1>2. CASE handle_event
  <2>1. chain' \in chain .. MaxBlock /\ failures' = failures
    BY <1>2, MonitorAssumption DEF handle_event, Windowed
  <2>2. QED
    BY <1>2, <2>1, EventKeeps, SameWindows
<1>3. CASE Advance
  <2>1. chain' \in chain .. MaxBlock /\ failures' = failures /\ tables' = tables
    BY <1>3, MonitorAssumption DEF Advance, Windowed
  <2>2. QED
    BY <2>1, SameWindows
<1>4. CASE TimerFires \/ handle_tick \/ (\E key \in Keys : KeyPressed(key)) \/ UNCHANGED vars
  <2>1. chain' \in chain .. MaxBlock /\ failures' = failures /\ tables' = tables
    BY <1>4, MonitorAssumption DEF TimerFires, handle_tick, KeyPressed, vars, Windowed
  <2>2. QED
    BY <2>1, SameWindows
<1>5. QED
  BY <1>1, <1>2, <1>3, <1>4 DEF Next, Actor

LEMMA InitWindowed == Init => Windowed
<1> SUFFICES ASSUME Init PROVE Windowed
  OBVIOUS
<1>1. chain = 0 /\ failures = 0 /\ Chains \subseteq Names /\ "batches" \in Chains
  BY DEF Init, Chains, Names, Widgets
<1>2. ASSUME NEW w \in Chains PROVE tables[w].last = 0 /\ tables[w].items = <<>>
  <2>1. tables[w] = NewTable(w) /\ w # "rich_accounts"
    BY <1>1 DEF Init, Names, Chains
  <2>2. QED
    BY <2>1 DEF NewTable
<1>3. ASSUME NEW w \in Chains PROVE IsWindow(tables[w], chain)
  <2>1. \A R : <<>> \in Seq(R)
    OBVIOUS
  <2>2. Len(<<>>) = 0 /\ DOMAIN <<>> = {}
    OBVIOUS
  <2>3. Distinct(tables[w].items)
    BY <1>2, <2>2 DEF Distinct
  <2>4. tables[w].items \in Seq(Row(1, tables[w].last))
    BY <1>2, <2>1
  <2>5. tables[w].last \in Nat /\ tables[w].last <= chain
    BY <1>1, <1>2
  <2>6. Len(tables[w].items) <= Window
    BY <1>2, <2>2, MonitorAssumption
  <2>7. QED
    BY <2>3, <2>4, <2>5, <2>6 DEF IsWindow
<1>4. Unbroken(tables["batches"])
  BY <1>1, <1>2, MonitorAssumption DEF Unbroken, Smaller
<1>5. QED
  BY <1>1, <1>3, <1>4, MonitorAssumption DEF Windowed

\* However far the chain runs ahead and wherever a tick fails, no table of a chain
\* outgrows its window or shows a thing twice, and while nothing failed the batches are
\* the latest ones in order (on_tick of the tables: fetch, make room, join).
THEOREM TablesStayWindows == Spec => []TablesAreWindows
<1>1. OneBorder /\ Windowed /\ [Next]_vars => Windowed'
  BY WindowedStep
<1>2. Windowed => TablesAreWindows
  <2> SUFFICES ASSUME Windowed PROVE TablesAreWindows
    OBVIOUS
  <2>1. ASSUME NEW w \in Chains
        PROVE  /\ Len(tables[w].items) <= Window
               /\ \A i, j \in DOMAIN tables[w].items :
                     tables[w].items[i].number = tables[w].items[j].number => i = j
    BY DEF Windowed, IsWindow, Distinct
  <2>2. DOMAIN tables["batches"].items = 1 .. Len(tables["batches"].items)
    BY LenProperties DEF Windowed, IsWindow, Chains
  <2>3. QED
    BY <2>1, <2>2 DEF TablesAreWindows, Windowed, Unbroken, Chains
<1>3. QED
  BY <1>1, <1>2, InitWindowed, Always, PTL DEF Spec
=============================================================================
