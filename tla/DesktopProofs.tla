--------------------------- MODULE DesktopProofs ---------------------------
(* Proofs about the running desktop, its mouse, its windows and its        *)
(* screen, for every screen size, font, length of text, set of movements   *)
(* and buttons, and however the idle loop runs.                            *)
EXTENDS Desktop, FiniteSetTheorems, TLAPS

(* Steps that name no prover go to the SMT solver, with this many seconds. *)
USE SMTT(30)

(* What the handler knows of the device: a quiet packet leaves it, after   *)
(* its first movement byte, either with both bytes or waiting for a start. *)
Aligned ==
    /\ packet \in Seq(Int) /\ Cycle \in 0 .. 2
    /\ acks \in 0 .. 2 /\ phase \in 0 .. 2
    /\ quiet \in BOOLEAN /\ synced \in BOOLEAN
    /\ acks > 0 => ~synced /\ ~quiet /\ phase = 0
    /\ quiet /\ phase = 2 => Cycle \in {0, 2}
    /\ synced => Cycle = phase

(* The pieces of the device's and the handler's step that the proof uses.  *)
LEMMA Bytes3 ==
    ASSUME NEW byte \in Sends
    PROVE  /\ byte \in Int
           /\ acks = 0 /\ phase = 0 => Bit3(byte)
  <1>1. CASE byte = ACK
    <2>1. byte \in Int
      BY <1>1 DEF ACK
    <2> QED
      BY <2>1, MouseAssumption DEF Sends
  <1>2. CASE byte \in Heads
    BY <1>2, MouseAssumption DEF Byte
  <1>3. CASE byte \in Moves
    BY <1>3, MouseAssumption DEF Sends, Byte
  <1> QED
    BY <1>1, <1>2, <1>3 DEF Sends

LEMMA Phases == \A p \in 0 .. 2 : (p + 1) % 3 = IF p = 2 THEN 0 ELSE p + 1
  BY Z3

(* The length of the packet after a byte. *)
LEMMA Handled ==
    ASSUME NEW byte \in Int, packet \in Seq(Int), Cycle \in 0 .. 2, MouseInterrupt(byte)
    PROVE  /\ packet' \in Seq(Int)
           /\ Cycle' = IF (Cycle = 0 /\ ~Bit3(byte)) \/ Cycle = 2 THEN 0 ELSE Cycle + 1
  <1>1. CASE Skipped(byte)
    <2>1. packet' = packet
      BY <1>1 DEF MouseInterrupt, handler_vars
    <2>2. Cycle' = Cycle
      BY <2>1 DEF Cycle
    <2> QED
      BY <1>1, <2>1, <2>2 DEF Skipped
  <1>2. CASE ~Skipped(byte) /\ Cycle < 2
    <2>1. packet' = Append(packet, byte)
      BY <1>2 DEF MouseInterrupt
    <2>2. packet' \in Seq(Int)
      BY <2>1
    <2>3. Cycle' = Cycle + 1
      BY <2>1 DEF Cycle
    <2> QED
      BY <1>2, <2>2, <2>3 DEF Skipped
  <1>3. CASE ~Skipped(byte) /\ ~(Cycle < 2)
    <2>1. packet' = <<>>
      BY <1>3 DEF MouseInterrupt
    <2>2. packet' \in Seq(Int)
      BY <2>1
    <2>3. Cycle' = 0
      BY <2>1 DEF Cycle
    <2> QED
      BY <1>3, <2>2, <2>3
  <1> QED
    BY <1>1, <1>2, <1>3

LEMMA ArrivalKeepsAligned == Aligned /\ ByteArrives => Aligned'
  <1> SUFFICES ASSUME Aligned, NEW byte \in Sends, Sent(byte, FALSE), MouseInterrupt(byte)
               PROVE  Aligned'
    BY Zenon DEF ByteArrives
  <1>1. byte \in Int /\ (acks = 0 /\ phase = 0 => Bit3(byte))
    BY Bytes3
  <1>2. /\ packet' \in Seq(Int)
        /\ Cycle' = IF (Cycle = 0 /\ ~Bit3(byte)) \/ Cycle = 2 THEN 0 ELSE Cycle + 1
    BY <1>1, Handled DEF Aligned
  <1>3. CASE acks > 0
    <2>1. acks' = acks - 1 /\ phase' = phase /\ quiet' = quiet /\ synced' = synced
      BY <1>3 DEF Sent
    <2> QED
      BY <1>2, <1>3, <2>1 DEF Aligned
  <1>4. CASE ~(acks > 0)
    <2>1. acks = 0 /\ acks' = 0
      BY <1>4 DEF Sent, Aligned
    <2>2. phase' = IF phase = 2 THEN 0 ELSE phase + 1
      BY <1>4, Phases DEF Sent, Aligned
    <2>3. quiet' = (phase = 0 \/ (quiet /\ ~Bit3(byte)))
      BY <1>4 DEF Sent
    <2>4. synced' = (synced \/ (phase = 2 /\ quiet'))
      BY <1>4, <2>3, Zenon DEF Sent
    <2>5. Cycle \in 0 .. 2 /\ Cycle' \in 0 .. 2
      BY <1>2 DEF Aligned
    <2>6. quiet' /\ phase' = 2 => Cycle' \in {0, 2}
      BY <1>2, <2>2, <2>3, <2>5 DEF Aligned
    <2>7. synced' => Cycle' = phase'
      <3> SUFFICES ASSUME synced' PROVE Cycle' = phase'
        OBVIOUS
      <3>1. CASE synced
        <4>1. Cycle = phase /\ phase \in 0 .. 2
          BY <3>1 DEF Aligned
        <4>2. phase = 0 => Bit3(byte)
          BY <1>1, <2>1
        <4> QED
          BY <1>2, <2>2, <4>1, <4>2
      <3>2. CASE ~synced
        <4>1. phase = 2 /\ quiet'
          BY <2>4, <3>2, Zenon
        <4>2. quiet /\ ~Bit3(byte)
          <5>1. phase # 0
            BY <4>1
          <5> QED
            BY <2>3, <4>1, <5>1, Zenon
        <4>3. Cycle \in {0, 2}
          BY <4>1, <4>2 DEF Aligned
        <4> QED
          BY <1>2, <2>2, <4>1, <4>2, <4>3
      <3> QED
        BY <3>1, <3>2
    <2>8. quiet' \in BOOLEAN /\ synced' \in BOOLEAN
      BY <2>3, <2>4 DEF Aligned
    <2> QED
      BY <1>2, <2>1, <2>2, <2>6, <2>7, <2>8 DEF Aligned
  <1> QED
    BY <1>3, <1>4

LEMMA LossKeepsAligned == Aligned /\ ByteLost => Aligned'
  <1> SUFFICES ASSUME Aligned, NEW byte \in Sends, Sent(byte, TRUE), UNCHANGED handler_vars
               PROVE  Aligned'
    BY Zenon DEF ByteLost
  <1>1. packet' = packet /\ Cycle' = Cycle
    BY DEF handler_vars, Cycle
  <1>2. CASE acks > 0
    BY <1>1, <1>2 DEF Sent, Aligned
  <1>3. CASE ~(acks > 0)
    <2>1. acks' = 0
      BY <1>3 DEF Sent, Aligned
    <2>3. ~quiet' /\ quiet' \in BOOLEAN
      BY <1>3, Zenon DEF Sent
    <2>4. ~synced' /\ synced' \in BOOLEAN
      BY <1>3, Zenon DEF Sent
    <2>2. phase' \in 0 .. 2
      BY <1>3, Phases DEF Sent, Aligned
    <2> QED
      BY <1>1, <2>1, <2>2, <2>3, <2>4 DEF Aligned
  <1> QED
    BY <1>2, <1>3

LEMMA MouseOrNot == [DesktopNext]_vars => ByteArrives \/ ByteLost \/ UNCHANGED mouse_vars
  <1>1. EnterLoop \/ NoMoreKeys \/ ReadX \/ ReadY \/ Woken => UNCHANGED mouse_vars
    BY Zenon DEF EnterLoop, NoMoreKeys, ReadX, ReadY, Woken
  <1>2. ReadButtons \/ Render => UNCHANGED mouse_vars
    BY Zenon DEF ReadButtons, Render
  <1>3. ASSUME NEW ch, TypeChar(ch) PROVE UNCHANGED mouse_vars
    BY <1>3, Zenon DEF TypeChar
  <1>4. UNCHANGED vars => UNCHANGED mouse_vars
    BY Zenon DEF vars
  <1>5. MouseByte => ByteArrives \/ ByteLost
    BY Zenon DEF MouseByte
  <1> QED
    BY <1>1, <1>2, <1>3, <1>4, <1>5, Zenon DEF DesktopNext, Loop

(* On the running desktop, once a packet with quiet movement bytes went    *)
(* by, mouse_interrupt_handler is in step with the device until a byte is  *)
(* lost: MOUSE_CYCLE is the number of bytes sent of the current packet.    *)
THEOREM MouseStaysInStep == DesktopSpec => []MouseInStep
  <1>1. DesktopInit => Aligned
    <2> SUFFICES ASSUME DesktopInit PROVE Aligned
      OBVIOUS
    <2>1. packet = <<>>
      BY Zenon DEF DesktopInit, MouseInit
    <2>2. packet \in Seq(Int) /\ Cycle = 0
      BY <2>1 DEF Cycle
    <2>3. acks = 2 /\ phase = 0
      BY Zenon DEF DesktopInit, MouseInit
    <2>4. ~quiet /\ ~synced /\ quiet \in BOOLEAN /\ synced \in BOOLEAN
      BY Zenon DEF DesktopInit, MouseInit
    <2> QED
      BY <2>2, <2>3, <2>4 DEF Aligned
  <1>2. Aligned /\ [DesktopNext]_vars => Aligned'
    <2> SUFFICES ASSUME Aligned, [DesktopNext]_vars PROVE Aligned'
      OBVIOUS
    <2>1. CASE UNCHANGED mouse_vars
      <3>1. Cycle' = Cycle
        BY <2>1 DEF mouse_vars, Cycle
      <3> QED
        BY <2>1, <3>1 DEF mouse_vars, Aligned
    <2> QED
      BY <2>1, MouseOrNot, ArrivalKeepsAligned, LossKeepsAligned
  <1>3. Aligned => MouseInStep
    BY DEF Aligned, MouseInStep
  <1> QED
    BY <1>1, <1>2, <1>3, PTL DEF DesktopSpec

-----------------------------------------------------------------------------
(* The windows and the screen. *)

RootWindow == Filled(AllAreas, <<"white">>)
TerminalWindow(t, n) == Filled({TERM}, Shown(t, n))

(* The table of windows is known exactly at every moment: the root, the    *)
(* desktop, and the terminal with what was typed once it is open.          *)
Table(w, t, n) ==
    IF w = None THEN <<RootWindow, Background>>
    ELSE <<RootWindow, Background, TerminalWindow(t, n)>>

GuiInv ==
    /\ len \in 0 .. MAX_TEXT
    /\ terminal \in {None, 3}
    /\ windows = Table(terminal, text, len)
    /\ step = "halted" => screen = Rendered(AllAreas, windows)

LEMMA ThirdReplaced ==
    ASSUME NEW a, NEW b, NEW c, NEW d
    PROVE  [<<a, b, c>> EXCEPT ![3] = d] = <<a, b, d>>
  OBVIOUS

LEMMA ThirdAdded ==
    ASSUME NEW a, NEW b, NEW c
    PROVE  Append(<<a, b>>, c) = <<a, b, c>> /\ Len(<<a, b>>) = 2
  <1> DEFINE S == {a, b, c}
             s == Append(<<a, b>>, c)
             t == <<a, b, c>>
  <1>1. <<a, b>> \in Seq(S) /\ Len(<<a, b>>) = 2
    OBVIOUS
  <1>2. s \in Seq(S) /\ t \in Seq(S)
    BY <1>1
  <1>3. Len(s) = 3 /\ Len(t) = 3
    BY <1>1
  <1>4. s[1] = t[1] /\ s[2] = t[2] /\ s[3] = t[3]
    BY <1>1
  <1>5. \A i \in 1 .. Len(s) : s[i] = t[i]
    <2> HIDE DEF s, t
    <2> QED
      BY <1>3, <1>4
  <1>6. s = t
    <2> HIDE DEF S, s, t
    <2> QED
      BY <1>2, <1>3, <1>5
  <1> QED
    BY <1>1, <1>6

LEMMA NotNone == 3 # None
  BY DesktopAssumption

LEMMA RedrawsTable ==
    ASSUME NEW t, NEW n, NEW u, NEW m
    PROVE  Redrawn(Table(3, t, n), 3, u, m) = Table(3, u, m)
  <1>1. PICK a, b, c, d : a = RootWindow /\ b = Background /\ c = TerminalWindow(t, n)
                          /\ d = TerminalWindow(u, m)
    BY Zenon
  <1>2. Table(3, t, n) = <<a, b, c>> /\ Table(3, u, m) = <<a, b, d>>
    BY <1>1, NotNone, Zenon DEF Table
  <1>3. Redrawn(<<a, b, c>>, 3, u, m) = [<<a, b, c>> EXCEPT ![3] = d]
    BY <1>1, Zenon DEF Redrawn, TerminalWindow
  <1>4. [<<a, b, c>> EXCEPT ![3] = d] = <<a, b, d>>
    BY ThirdReplaced
  <1> QED
    BY <1>2, <1>3, <1>4, Zenon

LEMMA OpensTable ==
    ASSUME NEW t, NEW n
    PROVE  /\ Len(Table(None, t, n)) + 1 = 3
           /\ Redrawn(Append(Table(None, t, n), Filled({TERM}, <<"white">>)), 3, t, n)
                = Table(3, t, n)
  <1>1. PICK a, b, c, d : a = RootWindow /\ b = Background /\ c = Filled({TERM}, <<"white">>)
                          /\ d = TerminalWindow(t, n)
    BY Zenon
  <1>2. Table(None, t, n) = <<a, b>> /\ Table(3, t, n) = <<a, b, d>>
    BY <1>1, NotNone, Zenon DEF Table
  <1>3. Redrawn(<<a, b, c>>, 3, t, n) = [<<a, b, c>> EXCEPT ![3] = d]
    BY <1>1, Zenon DEF Redrawn, TerminalWindow
  <1>4. Append(<<a, b>>, c) = <<a, b, c>> /\ Len(<<a, b>>) = 2
    BY ThirdAdded
  <1>5. Len(Table(None, t, n)) = 2
    BY <1>2, <1>4, Zenon
  <1>6. [<<a, b, c>> EXCEPT ![3] = d] = <<a, b, d>>
    BY ThirdReplaced
  <1>7. Redrawn(Append(Table(None, t, n), Filled({TERM}, <<"white">>)), 3, t, n) = Table(3, t, n)
    BY <1>1, <1>2, <1>3, <1>4, <1>6, Zenon
  <1> QED
    BY <1>5, <1>7

LEMMA TypeKeepsGui ==
    ASSUME GuiInv, NEW ch, TypeChar(ch)
    PROVE  GuiInv'
  <1>1. step = "keys" /\ step' = step
    BY DEF TypeChar, loop_vars
  <1>2. CASE terminal = None
    BY <1>1, <1>2 DEF TypeChar, gui_vars, GuiInv
  <1>3. CASE terminal # None
    <2>1. terminal = 3 /\ terminal' = terminal /\ windows' = Redrawn(windows, terminal, text', len')
      BY <1>3 DEF TypeChar, GuiInv
    <2>2. len' \in 0 .. MAX_TEXT
      <3>1. len' = NewLen(ch)
        BY <1>3 DEF TypeChar
      <3>2. len \in 0 .. MAX_TEXT /\ MAX_TEXT \in Nat
        BY DesktopAssumption DEF GuiInv
      <3>3. len' \in {0, len} \/ (len > 0 /\ len' = len - 1) \/ (len < MAX_TEXT /\ len' = len + 1)
        BY <3>1 DEF NewLen, Enter, Backspace
      <3> QED
        BY <3>2, <3>3
    <2>3. windows' = Table(3, text', len')
      BY <2>1, RedrawsTable DEF GuiInv
    <2> QED
      BY <1>1, <2>1, <2>2, <2>3 DEF GuiInv
  <1> QED
    BY <1>2, <1>3

LEMMA ButtonsKeepGui == ASSUME GuiInv, ReadButtons PROVE GuiInv'
  <1>1. text' = text /\ len' = len /\ step' \in {"render", "panicked"}
    BY DEF ReadButtons, OpenTerminal
  <1>2. CASE windows' = windows /\ terminal' = terminal
    BY <1>1, <1>2 DEF GuiInv
  <1>3. CASE Clicked /\ terminal # None
    <2>1. windows' = Redrawn(windows, terminal, text, len) /\ terminal' = terminal /\ terminal = 3
      BY <1>3 DEF ReadButtons, OpenTerminal, NeedsWindow, GuiInv
    <2>2. windows' = Table(3, text, len)
      BY <2>1, RedrawsTable DEF GuiInv
    <2> QED
      BY <1>1, <2>1, <2>2 DEF GuiInv
  <1>4. CASE Clicked /\ terminal = None /\ CanCreate({TERM})
    <2>1. /\ terminal' = Len(windows) + 1
          /\ windows' = Redrawn(Append(windows, Filled({TERM}, <<"white">>)), terminal', text, len)
      BY <1>4 DEF ReadButtons, OpenTerminal, NeedsWindow
    <2>2. windows = Table(None, text, len)
      BY <1>4 DEF GuiInv
    <2>3. terminal' = 3 /\ windows' = Table(3, text, len)
      BY <2>1, <2>2, OpensTable
    <2> QED
      BY <1>1, <2>3 DEF GuiInv
  <1> QED
    BY <1>2, <1>3, <1>4 DEF ReadButtons, OpenTerminal, NeedsWindow

LEMMA StepKeepsGui == ASSUME GuiInv, [DesktopNext]_vars PROVE GuiInv'
  <1>1. CASE UNCHANGED gui_vars /\ (step' = step \/ step' # "halted")
    BY <1>1 DEF gui_vars, GuiInv
  <1>2. CASE Render
    BY <1>2 DEF Render, GuiInv
  <1>3. CASE EnterLoop \/ NoMoreKeys \/ ReadX \/ ReadY \/ Woken
    <2>1. UNCHANGED gui_vars /\ step' # "halted"
      BY <1>3 DEF EnterLoop, NoMoreKeys, ReadX, ReadY, Woken
    <2> QED
      BY <1>1, <2>1
  <1>4. CASE MouseByte \/ UNCHANGED vars
    <2>1. UNCHANGED gui_vars /\ step' = step
      BY <1>4 DEF MouseByte, vars, loop_vars
    <2> QED
      BY <1>1, <2>1
  <1> QED
    BY <1>2, <1>3, <1>4, TypeKeepsGui, ButtonsKeepGui DEF DesktopNext, Loop

LEMMA GuiAlways == DesktopSpec => []GuiInv
  <1>1. DesktopInit => GuiInv
    <2> SUFFICES ASSUME DesktopInit PROVE GuiInv
      OBVIOUS
    <2>1. terminal = None /\ len = 0 /\ step = "boot"
      BY DEF DesktopInit
    <2>2. windows = Table(terminal, text, len)
      BY <2>1, Zenon DEF DesktopInit, Table, RootWindow
    <2> QED
      BY <2>1, <2>2, DesktopAssumption DEF GuiInv
  <1>2. GuiInv /\ [DesktopNext]_vars => GuiInv'
    BY StepKeepsGui
  <1> QED
    BY <1>1, <1>2, PTL DEF DesktopSpec

-----------------------------------------------------------------------------
(* What the windows of the table show. *)

LEMMA Largest ==
    /\ Max({1, 2}) = 2
    /\ Max({1, 2, 3}) = 3
  BY DEF Max

LEMMA Areas == BUTTON # TERM /\ REST # TERM /\ BUTTON # REST
  BY DEF BUTTON, TERM, REST

LEMMA Covers ==
    ASSUME NEW t, NEW n
    PROVE  /\ DOMAIN RootWindow = AllAreas /\ DOMAIN Background = AllAreas
           /\ DOMAIN TerminalWindow(t, n) = {TERM}
           /\ Background[BUTTON] = <<"button">> /\ Background[TERM] = <<"background">>
           /\ TerminalWindow(t, n)[TERM] = Shown(t, n)
  <1>1. PICK s : s = Shown(t, n)
    BY Zenon
  <1>2. TerminalWindow(t, n) = [a \in {TERM} |-> s]
    BY <1>1, Zenon DEF TerminalWindow, Filled
  <1>3. DOMAIN TerminalWindow(t, n) = {TERM} /\ TerminalWindow(t, n)[TERM] = s
    BY <1>2
  <1>4. DOMAIN RootWindow = AllAreas
    BY DEF RootWindow, Filled
  <1>5. DOMAIN Background = AllAreas /\ Background[BUTTON] = <<"button">>
        /\ Background[TERM] = <<"background">>
    BY Areas DEF Background, AllAreas
  <1> QED
    BY <1>1, <1>3, <1>4, <1>5, Zenon

LEMMA TwoRendered ==
    ASSUME NEW a, NEW b, NEW area, area \in DOMAIN a, area \in DOMAIN b, area \in AllAreas
    PROVE  Rendered(AllAreas, <<a, b>>)[area] = b[area]
  <1>1. {i \in DOMAIN <<a, b>> : area \in DOMAIN <<a, b>>[i]} = {1, 2}
    OBVIOUS
  <1>2. LastSlot(<<a, b>>, area) = 2
    BY <1>1, Largest, Zenon DEF LastSlot
  <1>3. Rendered(AllAreas, <<a, b>>)[area] = <<a, b>>[LastSlot(<<a, b>>, area)][area]
    BY DEF Rendered
  <1> QED
    BY <1>2, <1>3

LEMMA ThreeRendered ==
    ASSUME NEW a, NEW b, NEW c, NEW area, area \in DOMAIN a, area \in DOMAIN b, area \in AllAreas
    PROVE  Rendered(AllAreas, <<a, b, c>>)[area] = IF area \in DOMAIN c THEN c[area] ELSE b[area]
  <1>1. {i \in DOMAIN <<a, b, c>> : area \in DOMAIN <<a, b, c>>[i]}
          = IF area \in DOMAIN c THEN {1, 2, 3} ELSE {1, 2}
    OBVIOUS
  <1>2. LastSlot(<<a, b, c>>, area) = IF area \in DOMAIN c THEN 3 ELSE 2
    BY <1>1, Largest, Zenon DEF LastSlot
  <1>3. Rendered(AllAreas, <<a, b, c>>)[area] = <<a, b, c>>[LastSlot(<<a, b, c>>, area)][area]
    BY DEF Rendered
  <1> QED
    BY <1>2, <1>3

LEMMA TableRendered ==
    ASSUME NEW w, NEW t, NEW n
    PROVE  /\ Rendered(AllAreas, Table(w, t, n))[BUTTON] = <<"button">>
           /\ Rendered(AllAreas, Table(w, t, n))[TERM]
                = IF w = None THEN <<"background">> ELSE Shown(t, n)
  <1>1. PICK a, b, c : a = RootWindow /\ b = Background /\ c = TerminalWindow(t, n)
    BY Zenon
  <1>2. PICK s : s = Shown(t, n)
    BY Zenon
  <1>3. /\ DOMAIN a = AllAreas /\ DOMAIN b = AllAreas /\ DOMAIN c = {TERM}
        /\ b[BUTTON] = <<"button">> /\ b[TERM] = <<"background">> /\ c[TERM] = s
    BY <1>1, <1>2, Covers, Zenon
  <1>4. BUTTON \in AllAreas /\ TERM \in AllAreas
    BY DEF AllAreas
  <1>5. CASE w = None
    <2>1. Table(w, t, n) = <<a, b>>
      BY <1>1, <1>5, Zenon DEF Table
    <2>2. Rendered(AllAreas, <<a, b>>)[BUTTON] = b[BUTTON] /\ Rendered(AllAreas, <<a, b>>)[TERM] = b[TERM]
      BY <1>3, <1>4, TwoRendered
    <2> QED
      BY <1>3, <1>5, <2>1, <2>2, Zenon
  <1>6. CASE w # None
    <2>1. Table(w, t, n) = <<a, b, c>>
      BY <1>1, <1>6, Zenon DEF Table
    <2>2. /\ Rendered(AllAreas, <<a, b, c>>)[BUTTON] = b[BUTTON]
          /\ Rendered(AllAreas, <<a, b, c>>)[TERM] = c[TERM]
      BY <1>3, <1>4, Areas, ThreeRendered
    <2> QED
      BY <1>2, <1>3, <1>6, <2>1, <2>2, Zenon
  <1> QED
    BY <1>5, <1>6

(* When the idle loop halts, the screen shows the taskbar's button and,    *)
(* once the terminal is open, the glyphs of what was typed since the last  *)
(* Enter, however type_char, handle_mouse and the mouse's bytes fall.      *)
THEOREM ScreenStaysCurrent == DesktopSpec => []ScreenIsCurrent
  <1>1. GuiInv => ScreenIsCurrent
    <2> SUFFICES ASSUME GuiInv, step = "halted"
                 PROVE  /\ screen[BUTTON] = <<"button">>
                        /\ screen[TERM] = IF terminal = None THEN <<"background">>
                                          ELSE Shown(text, len)
      BY DEF ScreenIsCurrent
    <2>1. screen = Rendered(AllAreas, Table(terminal, text, len))
      BY Zenon DEF GuiInv
    <2> QED
      BY <2>1, TableRendered, Zenon
  <1> QED
    BY <1>1, GuiAlways, PTL

-----------------------------------------------------------------------------
(* The mouse's registers and the types. *)

RegistersInv ==
    /\ packet \in Seq(Byte) /\ Cycle \in 0 .. 2
    /\ pos \in [x : 0 .. WIDTH - 1, y : 0 .. HEIGHT - 1]
    /\ btn \in 0 .. 7

LEMMA ClampInRange ==
    ASSUME NEW n \in Int, NEW size \in Nat \ {0}
    PROVE  Clamp(n, size - 1) \in 0 .. size - 1
  BY DEF Clamp

LEMMA LowBits == \A n \in Int : n % 8 \in 0 .. 7
  BY Z3

LEMMA TwoEntries ==
    ASSUME NEW S, NEW s \in Seq(S), Len(s) = 2
    PROVE  s[1] \in S /\ s[2] \in S
  <1>1. \A i \in 1 .. Len(s) : s[i] \in S
    OBVIOUS
  <1> QED
    BY <1>1

LEMMA SentBytes == Sends \subseteq Byte
  <1>1. ACK \in Byte
    BY DEF ACK, Byte
  <1> QED
    BY <1>1, MouseAssumption DEF Sends

LEMMA InterruptKeepsRegisters ==
    ASSUME RegistersInv, NEW byte \in Byte, MouseInterrupt(byte)
    PROVE  RegistersInv'
  <1>1. CASE Skipped(byte)
    <2>1. packet' = packet /\ pos' = pos /\ btn' = btn
      BY <1>1 DEF MouseInterrupt, handler_vars
    <2> QED
      BY <2>1 DEF RegistersInv, Cycle
  <1>2. CASE ~Skipped(byte) /\ Cycle < 2
    <2>1. packet' = Append(packet, byte) /\ pos' = pos /\ btn' = btn
      BY <1>2 DEF MouseInterrupt
    <2>2. packet' \in Seq(Byte) /\ Len(packet') = Len(packet) + 1
      BY <2>1 DEF RegistersInv
    <2> QED
      BY <1>2, <2>1, <2>2 DEF RegistersInv, Cycle
  <1>3. CASE ~Skipped(byte) /\ ~(Cycle < 2)
    <2>1. /\ packet' = <<>>
          /\ pos' = [x |-> Clamp(pos.x + packet[2], WIDTH - 1),
                     y |-> Clamp(pos.y - byte, HEIGHT - 1)]
          /\ btn' = packet[1] % 8
      BY <1>3 DEF MouseInterrupt
    <2>2. Len(packet) = 2 /\ packet \in Seq(Byte)
      <3>1. Cycle = 2 /\ packet \in Seq(Byte)
        BY <1>3 DEF RegistersInv
      <3> QED
        BY <3>1, Zenon DEF Cycle
    <2>3. packet[1] \in Int /\ packet[2] \in Int /\ byte \in Int
      <3>1. packet[1] \in Byte /\ packet[2] \in Byte
        BY <2>2, TwoEntries, Zenon
      <3>2. \A b \in Byte : b \in Int
        BY DEF Byte
      <3> QED
        BY <3>1, <3>2, Zenon
    <2>4. pos.x \in Int /\ pos.y \in Int
      BY MouseAssumption DEF RegistersInv
    <2>5. Clamp(pos.x + packet[2], WIDTH - 1) \in 0 .. WIDTH - 1
      <3>1. PICK n \in Int : n = pos.x + packet[2]
        BY <2>3, <2>4
      <3>2. Clamp(n, WIDTH - 1) \in 0 .. WIDTH - 1
        BY ClampInRange, MouseAssumption
      <3> QED
        BY <3>1, <3>2, Zenon
    <2>6. Clamp(pos.y - byte, HEIGHT - 1) \in 0 .. HEIGHT - 1
      <3>1. PICK n \in Int : n = pos.y - byte
        BY <2>3, <2>4
      <3>2. Clamp(n, HEIGHT - 1) \in 0 .. HEIGHT - 1
        BY ClampInRange, MouseAssumption
      <3> QED
        BY <3>1, <3>2, Zenon
    <2>7. pos' \in [x : 0 .. WIDTH - 1, y : 0 .. HEIGHT - 1]
      BY <2>1, <2>5, <2>6
    <2>8. btn' \in 0 .. 7
      <3>1. btn' = packet[1] % 8 /\ packet[1] \in Int
        BY <2>1, <2>3, Zenon
      <3> QED
        BY <3>1, LowBits, Zenon
    <2>9. packet' \in Seq(Byte) /\ Cycle' = 0
      BY <2>1 DEF Cycle
    <2> QED
      BY <2>7, <2>8, <2>9 DEF RegistersInv
  <1> QED
    BY <1>1, <1>2, <1>3

LEMMA StepKeepsRegisters == ASSUME RegistersInv, [DesktopNext]_vars PROVE RegistersInv'
  <1>1. CASE UNCHANGED handler_vars
    BY <1>1 DEF handler_vars, RegistersInv, Cycle
  <1>2. CASE ByteArrives
    <2>1. PICK byte \in Sends : MouseInterrupt(byte)
      BY <1>2 DEF ByteArrives
    <2> QED
      BY <2>1, SentBytes, InterruptKeepsRegisters
  <1>3. ByteLost \/ UNCHANGED mouse_vars => UNCHANGED handler_vars
    BY Zenon DEF ByteLost, mouse_vars, handler_vars
  <1> QED
    BY <1>1, <1>2, <1>3, MouseOrNot

(* However bytes arrive, get lost or are out of step, MOUSE_X and MOUSE_Y  *)
(* stay on the screen, MOUSE_BTN within its three bits and MOUSE_CYCLE     *)
(* below 3, so that MOUSE_PACKET is indexed within its bounds; and         *)
(* TERMINAL_TEXT_LEN and TERMINAL_WINDOW within theirs.                    *)
THEOREM DesktopTypeCorrect == DesktopSpec => []DesktopTypeOK
  <1>1. DesktopInit => RegistersInv
    <2> SUFFICES ASSUME DesktopInit PROVE RegistersInv
      OBVIOUS
    <2>1. packet = <<>> /\ pos = Start /\ btn = 0
      BY Zenon DEF DesktopInit, MouseInit
    <2>2. packet \in Seq(Byte) /\ Cycle = 0
      BY <2>1 DEF Cycle
    <2> QED
      BY <2>1, <2>2, MouseAssumption DEF RegistersInv
  <1>2. RegistersInv /\ [DesktopNext]_vars => RegistersInv'
    BY StepKeepsRegisters
  <1>3. RegistersInv /\ GuiInv => DesktopTypeOK
    <2> SUFFICES ASSUME RegistersInv, GuiInv PROVE DesktopTypeOK
      OBVIOUS
    <2>1. terminal = None \/ terminal \in DOMAIN windows
      <3> SUFFICES ASSUME terminal # None PROVE terminal \in DOMAIN windows
        OBVIOUS
      <3>1. PICK a, b, c : windows = <<a, b, c>>
        BY Zenon DEF GuiInv, Table
      <3>2. terminal = 3
        BY DEF GuiInv
      <3> QED
        BY <3>1, <3>2
    <2> QED
      BY <2>1 DEF RegistersInv, GuiInv, DesktopTypeOK
  <1> QED
    BY <1>1, <1>2, <1>3, GuiAlways, PTL DEF DesktopSpec

-----------------------------------------------------------------------------
(* create_window at the only moment the running desktop calls it. *)

LEMMA BootBuffers ==
    ASSUME GuiInv, terminal = None
    PROVE  Cardinality(BackBuffers) = 6 /\ Len(windows) = 2
  <1>1. PICK a, b : a = RootWindow /\ b = Background
    BY Zenon
  <1>2. windows = <<a, b>>
    BY <1>1, Zenon DEF GuiInv, Table
  <1>3. DOMAIN a = AllAreas /\ DOMAIN b = AllAreas
    BY <1>1, Covers, Zenon
  <1>4. BackBuffers = {1, 2} \X AllAreas
    <2>1. DOMAIN windows = {1, 2} /\ windows[1] = a /\ windows[2] = b
      BY <1>2
    <2>2. {{i} \X DOMAIN windows[i] : i \in DOMAIN windows} = {{1} \X AllAreas, {2} \X AllAreas}
      BY <1>3, <2>1
    <2>3. UNION {{1} \X AllAreas, {2} \X AllAreas} = {1, 2} \X AllAreas
      OBVIOUS
    <2> QED
      BY <2>2, <2>3, Zenon DEF BackBuffers
  <1>5. IsFiniteSet({1, 2}) /\ Cardinality({1, 2}) = 2
    <2>1. IsFiniteSet({1}) /\ Cardinality({1}) = 1
      BY FS_Singleton
    <2>2. IsFiniteSet({1} \cup {2}) /\ Cardinality({1} \cup {2}) = 2
      BY <2>1, FS_AddElement
    <2>3. {1, 2} = {1} \cup {2}
      OBVIOUS
    <2> QED
      BY <2>2, <2>3, Zenon
  <1>6. IsFiniteSet(AllAreas) /\ Cardinality(AllAreas) = 3
    <2>1. IsFiniteSet({TERM}) /\ Cardinality({TERM}) = 1
      BY FS_Singleton
    <2>2. REST \notin {TERM} /\ BUTTON \notin {TERM} \cup {REST}
      BY Areas
    <2>3. IsFiniteSet({TERM} \cup {REST}) /\ Cardinality({TERM} \cup {REST}) = 2
      BY <2>1, <2>2, FS_AddElement
    <2>4. /\ IsFiniteSet(({TERM} \cup {REST}) \cup {BUTTON})
          /\ Cardinality(({TERM} \cup {REST}) \cup {BUTTON}) = 3
      BY <2>2, <2>3, FS_AddElement
    <2>5. AllAreas = ({TERM} \cup {REST}) \cup {BUTTON}
      BY DEF AllAreas
    <2> QED
      BY <2>4, <2>5, Zenon
  <1>7. Cardinality({1, 2} \X AllAreas) = 6
    <2>1. Cardinality({1, 2} \X AllAreas) = Cardinality({1, 2}) * Cardinality(AllAreas)
      BY <1>5, <1>6, FS_Product
    <2> QED
      BY <1>5, <1>6, <2>1
  <1>8. Cardinality(BackBuffers) = 6
    BY <1>4, <1>7, Zenon
  <1> QED
    BY <1>2, <1>8

LEMMA TerminalFits ==
    ASSUME GuiInv, terminal = None, HEAP_AREAS >= 7
    PROVE  CanCreate({TERM})
  <1>1. Cardinality({TERM}) = 1
    BY FS_Singleton
  <1>2. Cardinality(BackBuffers) + Cardinality({TERM}) <= HEAP_AREAS
    BY <1>1, BootBuffers, CompositorAssumption
  <1>3. Len(windows) < MAX_WINDOWS
    <2>1. Len(windows) = 2
      BY BootBuffers
    <2>2. 2 < MAX_WINDOWS
      BY DesktopAssumption, CompositorAssumption
    <2> QED
      BY <2>1, <2>2, Zenon
  <1> QED
    BY <1>2, <1>3, Zenon DEF CanCreate

(* On a machine whose early heap has room for the back buffers of the      *)
(* root, the desktop and the terminal, create_window never panics after    *)
(* boot, whatever is typed and clicked: open_terminal keeps the window in  *)
(* TERMINAL_WINDOW and creates it once.                                    *)
THEOREM DesktopNeverPanics ==
    HEAP_AREAS >= 7 => (DesktopSpec => []NeverOutOfWindows)
  <1> SUFFICES ASSUME HEAP_AREAS >= 7 PROVE DesktopSpec => []NeverOutOfWindows
    OBVIOUS
  <1>1. DesktopInit => NeverOutOfWindows
    BY DEF DesktopInit, NeverOutOfWindows
  <1>2. GuiInv /\ NeverOutOfWindows /\ [DesktopNext]_vars => NeverOutOfWindows'
    <2> SUFFICES ASSUME GuiInv, step # "panicked", [DesktopNext]_vars PROVE step' # "panicked"
      BY DEF NeverOutOfWindows
    <2>1. CASE ReadButtons
      <3>1. CASE ~Clicked
        BY <2>1, <3>1 DEF ReadButtons
      <3>2. CASE Clicked /\ terminal # None
        BY <2>1, <3>2 DEF ReadButtons, OpenTerminal, NeedsWindow
      <3>3. CASE Clicked /\ terminal = None
        <4>1. CanCreate({TERM})
          BY <3>3, TerminalFits
        <4> QED
          BY <2>1, <3>3, <4>1 DEF ReadButtons, OpenTerminal, NeedsWindow
      <3> QED
        BY <3>1, <3>2, <3>3
    <2>2. CASE ~ReadButtons
      BY <2>2 DEF DesktopNext, Loop, vars, loop_vars, MouseByte, EnterLoop, NoMoreKeys, ReadX,
                  ReadY, Render, Woken, TypeChar
    <2> QED
      BY <2>1, <2>2
  <1> QED
    BY <1>1, <1>2, GuiAlways, PTL DEF DesktopSpec

-----------------------------------------------------------------------------
(* The press that opens the terminal. *)

Pressed == LeftDown /\ OnButton

(* From the masks on the mouse stands still, so what handle_mouse read is  *)
(* still so; a button that was down at an earlier pass has had its effect. *)
PressInv ==
    step # "panicked" =>
        /\ step = "boot" => terminal = None
        /\ step \in {"boot", "render", "halted"} => (down_last <=> step # "boot" /\ LeftDown)
        /\ step \in {"y", "buttons"} => seen_x = pos.x
        /\ step = "buttons" => seen_y = pos.y
        /\ terminal # None => Pressed
        /\ down_last => LeftDown /\ (OnButton => terminal # None)

LEMMA MouseLineClosed == MouseByte => step = "boot"
  <1>1. (252 \div 4) % 2 # 0
    BY Z3
  <1> QED
    BY <1>1, Zenon DEF MouseByte, MouseLineOpen, Pic1Mask

LEMMA MouseStill ==
    UNCHANGED mouse_vars => (LeftDown' <=> LeftDown) /\ (OnButton' <=> OnButton) /\ pos' = pos
  <1> SUFFICES ASSUME UNCHANGED mouse_vars
               PROVE  (LeftDown' <=> LeftDown) /\ (OnButton' <=> OnButton) /\ pos' = pos
    OBVIOUS
  <1>1. btn' = btn /\ pos' = pos
    BY DEF mouse_vars, handler_vars
  <1>2. LeftDown' <=> LeftDown
    BY <1>1 DEF LeftDown
  <1>3. OnButton' <=> OnButton
    BY <1>1 DEF OnButton
  <1> QED
    BY <1>1, <1>2, <1>3, Zenon

LEMMA TerminalStays == ASSUME GuiInv, ReadButtons, step' # "panicked"
                       PROVE  /\ Clicked => terminal' # None
                              /\ ~Clicked => terminal' = terminal
                              /\ terminal # None => terminal' # None
                              /\ step' = "render"
                              /\ down_last' = LeftDown
  <1>1. down_last' = LeftDown
    BY Zenon DEF ReadButtons
  <1>2. CASE ~Clicked
    BY <1>1, <1>2, Zenon DEF ReadButtons
  <1>3. CASE Clicked /\ terminal # None
    BY <1>1, <1>3, Zenon DEF ReadButtons, OpenTerminal, NeedsWindow
  <1>4. CASE Clicked /\ terminal = None
    <2>1. CanCreate({TERM}) /\ terminal' = Len(windows) + 1 /\ step' = "render"
      BY <1>4, Zenon DEF ReadButtons, OpenTerminal, NeedsWindow
    <2>2. terminal' = 3
      BY <1>4, <2>1, OpensTable DEF GuiInv
    <2> QED
      BY <1>1, <1>4, <2>1, <2>2, NotNone, Zenon
  <1> QED
    BY <1>2, <1>3, <1>4, Zenon

LEMMA ButtonsKeepPress == ASSUME GuiInv, PressInv, ReadButtons PROVE PressInv'
  <1>1. SUFFICES ASSUME step' # "panicked" PROVE PressInv'
    BY Zenon DEF PressInv
  <1>2. step = "buttons" /\ UNCHANGED mouse_vars
    BY Zenon DEF ReadButtons
  <1>3. /\ seen_x = pos.x /\ seen_y = pos.y /\ (terminal # None => Pressed)
        /\ down_last => LeftDown /\ (OnButton => terminal # None)
    <2>1. step # "panicked"
      BY <1>2
    <2> QED
      BY <1>2, <2>1, Zenon DEF PressInv
  <1>4. Clicked <=> Pressed /\ ~down_last
    BY <1>3, Zenon DEF Clicked, Pressed, OnButton
  <1>5. /\ terminal' # None <=> Pressed
        /\ down_last' <=> LeftDown
        /\ step' = "render"
    <2>1. /\ Clicked => terminal' # None
          /\ ~Clicked => terminal' = terminal
          /\ terminal # None => terminal' # None
          /\ step' = "render"
          /\ down_last' = LeftDown
      BY <1>1, TerminalStays, Zenon
    <2>2. ASSUME Pressed PROVE terminal' # None
      <3>1. OnButton
        BY <2>2, Zenon DEF Pressed
      <3>2. CASE down_last
        BY <1>3, <2>1, <3>1, <3>2, Zenon
      <3>3. CASE ~down_last
        BY <1>4, <2>1, <2>2, <3>3, Zenon
      <3> QED
        BY <3>2, <3>3, Zenon
    <2>3. ASSUME terminal' # None PROVE Pressed
      BY <1>3, <1>4, <2>1, <2>3, Zenon
    <2> QED
      BY <2>1, <2>2, <2>3, Zenon
  <1>6. (Pressed' <=> Pressed) /\ (LeftDown' <=> LeftDown) /\ (OnButton' <=> OnButton)
    BY <1>2, MouseStill, Zenon DEF Pressed
  <1>7. step' # "boot" /\ step' \notin {"y", "buttons"} /\ step' # "buttons"
    BY <1>5
  <1> QED
    BY <1>5, <1>6, <1>7, Zenon DEF PressInv, Pressed

(* A step of the loop that leaves the terminal and BUTTON_DOWN_LAST alone. *)
LEMMA OtherKeepsPress ==
    ASSUME PressInv, UNCHANGED mouse_vars, terminal' = terminal, down_last' = down_last,
           step # "panicked",
           step' = "boot" => step = "boot",
           step' \in {"render", "halted"} => step \in {"render", "halted"},
           step' \in {"y", "buttons"} => seen_x' = pos.x,
           step' = "buttons" => seen_y' = pos.y
    PROVE  PressInv'
  <1>1. /\ step = "boot" => terminal = None
        /\ step \in {"boot", "render", "halted"} => (down_last <=> step # "boot" /\ LeftDown)
        /\ terminal # None => Pressed
        /\ down_last => LeftDown /\ (OnButton => terminal # None)
    BY Zenon DEF PressInv
  <1>2. /\ (Pressed' <=> Pressed) /\ (LeftDown' <=> LeftDown) /\ (OnButton' <=> OnButton)
        /\ pos' = pos
    BY MouseStill, Zenon DEF Pressed
  <1>3. step' \in {"boot", "render", "halted"} => (down_last' <=> step' # "boot" /\ LeftDown')
    <2>1. CASE step' = "boot"
      BY <1>1, <2>1, Zenon
    <2>2. CASE step' \in {"render", "halted"}
      <3>1. step' # "boot" /\ step # "boot" /\ step \in {"boot", "render", "halted"}
        BY <2>2
      <3> QED
        BY <1>1, <1>2, <3>1, Zenon
    <2> QED
      BY <2>1, <2>2, Zenon
  <1> QED
    BY <1>1, <1>2, <1>3, Zenon DEF PressInv, Pressed

LEMMA ByteKeepsPress == ASSUME PressInv, MouseByte PROVE PressInv'
  <1>1. step = "boot" /\ step' = step /\ terminal' = terminal
    <2>1. UNCHANGED loop_vars /\ UNCHANGED gui_vars
      BY Zenon DEF MouseByte
    <2> QED
      BY <2>1, MouseLineClosed DEF loop_vars, gui_vars
  <1>2. down_last' = down_last
    BY DEF MouseByte, loop_vars
  <1>3. step # "panicked" /\ step \in {"boot", "render", "halted"}
    BY <1>1
  <1>4. terminal = None /\ ~down_last
    BY <1>1, <1>3, Zenon DEF PressInv
  <1>5. ~down_last'
    BY <1>2, <1>4, Zenon
  <1>6. step' \notin {"y", "buttons"} /\ step' # "buttons"
    BY <1>1
  <1> QED
    BY <1>1, <1>4, <1>5, <1>6, Zenon DEF PressInv

LEMMA StepKeepsPress == ASSUME GuiInv, PressInv, [DesktopNext]_vars PROVE PressInv'
  <1>1. CASE EnterLoop \/ NoMoreKeys \/ Woken
    <2>1. UNCHANGED mouse_vars /\ UNCHANGED gui_vars /\ down_last' = down_last
      BY <1>1, Zenon DEF EnterLoop, NoMoreKeys, Woken
    <2>2. terminal' = terminal
      BY <2>1 DEF gui_vars
    <2>3. step # "panicked" /\ step' \in {"keys", "x"}
      BY <1>1 DEF EnterLoop, NoMoreKeys, Woken
    <2> QED
      BY <2>1, <2>2, <2>3, OtherKeepsPress
  <1>2. CASE ReadX
    <2>1. UNCHANGED mouse_vars /\ UNCHANGED gui_vars /\ down_last' = down_last
      BY <1>2, Zenon DEF ReadX
    <2>2. terminal' = terminal
      BY <2>1 DEF gui_vars
    <2>3. step = "x" /\ step' = "y" /\ seen_x' = pos.x
      BY <1>2, Zenon DEF ReadX
    <2> QED
      BY <2>1, <2>2, <2>3, OtherKeepsPress
  <1>3. CASE ReadY
    <2>1. UNCHANGED mouse_vars /\ UNCHANGED gui_vars /\ down_last' = down_last
      BY <1>3, Zenon DEF ReadY
    <2>2. terminal' = terminal
      BY <2>1 DEF gui_vars
    <2>3. step = "y" /\ step' = "buttons" /\ seen_x' = seen_x /\ seen_y' = pos.y
      BY <1>3, Zenon DEF ReadY
    <2>4. seen_x = pos.x
      BY <2>3 DEF PressInv
    <2> QED
      BY <2>1, <2>2, <2>3, <2>4, OtherKeepsPress
  <1>4. CASE Render
    <2>1. UNCHANGED mouse_vars /\ terminal' = terminal /\ down_last' = down_last
      BY <1>4, Zenon DEF Render
    <2>2. step = "render" /\ step' = "halted"
      BY <1>4, Zenon DEF Render
    <2> QED
      BY <2>1, <2>2, OtherKeepsPress
  <1>5. CASE UNCHANGED loop_vars /\ UNCHANGED mouse_vars /\ terminal' = terminal
    <2>1. step' = step /\ seen_x' = seen_x /\ seen_y' = seen_y /\ down_last' = down_last
      BY <1>5 DEF loop_vars
    <2>2. CASE step = "panicked"
      BY <2>1, <2>2, Zenon DEF PressInv
    <2>3. CASE step # "panicked"
      <3>1. (step \in {"y", "buttons"} => seen_x = pos.x) /\ (step = "buttons" => seen_y = pos.y)
        BY <2>3, Zenon DEF PressInv
      <3> QED
        BY <1>5, <2>1, <2>3, <3>1, OtherKeepsPress
    <2> QED
      BY <2>2, <2>3
  <1>6. ASSUME NEW ch, TypeChar(ch) PROVE PressInv'
    <2>1. UNCHANGED loop_vars /\ UNCHANGED mouse_vars
      BY <1>6, Zenon DEF TypeChar
    <2>2. terminal' = terminal
      BY <1>6 DEF TypeChar, gui_vars
    <2> QED
      BY <1>5, <2>1, <2>2, Zenon
  <1>7. CASE UNCHANGED vars
    <2>1. UNCHANGED loop_vars /\ UNCHANGED mouse_vars /\ UNCHANGED gui_vars
      BY <1>7, Zenon DEF vars
    <2>2. terminal' = terminal
      BY <2>1 DEF gui_vars
    <2> QED
      BY <1>5, <2>1, <2>2, Zenon
  <1> QED
    BY <1>1, <1>2, <1>3, <1>4, <1>6, <1>7, ByteKeepsPress, ButtonsKeepPress, Zenon
    DEF DesktopNext, Loop

(* On every screen, whatever packets arrive, get lost or are misread while *)
(* the firmware's masks are in force: whenever the idle loop halts, the    *)
(* terminal is open exactly if MOUSE_BTN and the position those packets    *)
(* left behind are a press on the taskbar's button; no later press opens   *)
(* it.                                                                     *)
THEOREM BootPressDecides == DesktopSpec => []OnlyBootPressOpens
  <1>1. DesktopInit => PressInv
    <2> SUFFICES ASSUME DesktopInit PROVE PressInv
      OBVIOUS
    <2>1. terminal = None /\ step = "boot" /\ ~down_last
      BY Zenon DEF DesktopInit
    <2>2. step \notin {"y", "buttons"} /\ step # "buttons"
      BY <2>1
    <2> QED
      BY <2>1, <2>2, Zenon DEF PressInv
  <1>2. GuiInv /\ PressInv /\ [DesktopNext]_vars => PressInv'
    BY StepKeepsPress
  <1>3. PressInv => OnlyBootPressOpens
    <2> SUFFICES ASSUME PressInv, step = "halted" PROVE terminal # None <=> LeftDown /\ OnButton
      BY DEF OnlyBootPressOpens
    <2>1. step # "panicked" /\ step # "boot" /\ step \in {"boot", "render", "halted"}
      OBVIOUS
    <2> QED
      BY <2>1, Zenon DEF PressInv, Pressed
  <1> QED
    BY <1>1, <1>2, <1>3, GuiAlways, PTL DEF DesktopSpec
=============================================================================
