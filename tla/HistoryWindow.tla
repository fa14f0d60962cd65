--------------------------- MODULE HistoryWindow ---------------------------
(***************************************************************************)
(* The ring buffer of one layer: `HistoryWindow` of                        *)
(* bridge-prover-lib/src/bridge_state.rs.  Two parallel slot arrays (root  *)
(* and height), a length that saturates at W and a write cursor that wraps *)
(* at W.  Operators only; BridgeState holds one window per layer.          *)
(***************************************************************************)
EXTENDS HistoryData

CONSTANT ZeroHash    \* content of a slot nothing was written to

ASSUME ZeroHashAssumption == ZeroHash \in Hash /\ 0 \in Height

Slots == 0 .. W - 1

Window ==
  [data         : [Slots -> Hash],
   heights      : [Slots -> Height],
   data_len     : 0 .. W,
   write_cursor : Slots,
   last_height  : Height]

(* HistoryWindow::new *)
NewWindow ==
  [data         |-> [i \in Slots |-> ZeroHash],
   heights      |-> [i \in Slots |-> 0],
   data_len     |-> 0,
   write_cursor |-> 0,
   last_height  |-> 0]

(* Slip: the cursor does not wrap. *)
NextSlotUnwrapped(i) == i + 1

(* The slot after i, modulo W. *)
NextSlot(i) == (i + 1) % W

(* Slip: the cursor moves only once the window is full. *)
WindowAppendStuck(win, h, height) ==
  [data         |-> [win.data EXCEPT ![win.write_cursor] = h],
   heights      |-> [win.heights EXCEPT ![win.write_cursor] = height],
   data_len     |-> IF win.data_len < W THEN win.data_len + 1 ELSE win.data_len,
   write_cursor |-> IF win.data_len < W THEN win.write_cursor
                                        ELSE NextSlot(win.write_cursor),
   last_height  |-> height]

(* HistoryWindow::append: overwrite the slot under the cursor. *)
WindowAppend(win, h, height) ==
  [data         |-> [win.data EXCEPT ![win.write_cursor] = h],
   heights      |-> [win.heights EXCEPT ![win.write_cursor] = height],
   data_len     |-> IF win.data_len < W THEN win.data_len + 1 ELSE win.data_len,
   write_cursor |-> NextSlot(win.write_cursor),
   last_height  |-> height]

(* Slip: a full window is read from slot 0. *)
ChronoSlotFromZero(win, i) == i

(* The slot of the i-th oldest entry, i counted from 0. *)
ChronoSlot(win, i) ==
  LET start == IF win.data_len < W THEN 0 ELSE win.write_cursor
  IN  (start + i) % W

(* iter_chronological: the valid entries, oldest first. *)
Chronological(win) ==
  [i \in 1 .. win.data_len |->
     [hash   |-> win.data[ChronoSlot(win, i - 1)],
      height |-> win.heights[ChronoSlot(win, i - 1)]]]

(* Slip: the slot under the cursor instead of the one before it. *)
WindowLatestAtCursor(win) == win.data[win.write_cursor]

(* latest: the slot before the write cursor; only for a non-empty window. *)
WindowLatest(win) == win.data[(win.write_cursor + W - 1) % W]
=============================================================================
