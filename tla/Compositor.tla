----------------------------- MODULE Compositor -----------------------------
(***************************************************************************)
(* The window compositor, kernel/src/gui/compositor.rs and gui/mod.rs, as  *)
(* functions of the table of windows.  Pixels are grouped into the areas   *)
(* of the screen that the desktop tells apart; a window is a function from *)
(* the areas it covers to what its back buffer holds there.  Windows are   *)
(* never closed, so the table's used slots are its first ones.             *)
(***************************************************************************)
EXTENDS Integers, Sequences, FiniteSets, FiniteSetsExt

CONSTANTS
    MAX_WINDOWS,        \* 32
    HEAP_AREAS          \* areas the early heap has back buffers for

ASSUME CompositorAssumption == MAX_WINDOWS \in Nat /\ HEAP_AREAS \in Nat

VARIABLES
    windows,            \* the windows, by slot
    screen              \* the framebuffer

(* create_window panics without memory for the back buffer or without a    *)
(* slot.                                                                   *)
BackBuffers == UNION {{i} \X DOMAIN windows[i] : i \in DOMAIN windows}
CanCreateBelowLast(areas) ==                    \* variant: last slot unused
    /\ Cardinality(BackBuffers) + Cardinality(areas) <= HEAP_AREAS
    /\ Len(windows) + 1 < MAX_WINDOWS
CanCreate(areas) ==
    /\ Cardinality(BackBuffers) + Cardinality(areas) <= HEAP_AREAS
    /\ Len(windows) < MAX_WINDOWS

Filled(areas, content) == [a \in areas |-> content]

(* render: clear, then every window over the ones in lower slots. *)
FirstSlot(table, area) == Min({i \in DOMAIN table : area \in DOMAIN table[i]})  \* variant
LastSlot(table, area) == Max({i \in DOMAIN table : area \in DOMAIN table[i]})
Rendered(areas, table) ==
    [a \in areas |-> IF \E i \in DOMAIN table : a \in DOMAIN table[i]
                     THEN table[LastSlot(table, a)][a] ELSE <<"cleared">>]

=============================================================================
