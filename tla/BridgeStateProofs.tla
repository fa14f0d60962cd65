------------------------- MODULE BridgeStateProofs -------------------------
(***************************************************************************)
(* Proofs about the ring buffers of BridgeState, for every window width,   *)
(* every number of layers and every set of roots and heights.              *)
(***************************************************************************)
EXTENDS BridgeState, Integers, FiniteSetTheorems, TLAPS

USE WindowAssumption, LayersAssumption, NumberAssumption, CapAssumption

-----------------------------------------------------------------------------
(* Arithmetic of the write cursor. *)

LEMMA ModSmall ==
  ASSUME NEW w \in Nat \ {0}, NEW a \in 0 .. w - 1
  PROVE  a % w = a
  OBVIOUS

LEMMA ModWrap ==
  ASSUME NEW w \in Nat \ {0}, NEW a \in w .. 2 * w - 1
  PROVE  a % w = a - w
  OBVIOUS

(* The cursor stays inside the slot array and wraps exactly at its end. *)
LEMMA NextSlotValue ==
  ASSUME NEW i \in Slots
  PROVE  /\ NextSlot(i) \in Slots
         /\ NextSlot(i) = IF i + 1 = W THEN 0 ELSE i + 1
  BY ModSmall, ModWrap DEF Slots, NextSlot

-----------------------------------------------------------------------------
(* One window. *)

CursorInv(win) == win.data_len < W => win.write_cursor = win.data_len

(* Where the chronological readers look, with the modulo worked out. *)
LEMMA ChronoSlotValue ==
  ASSUME NEW win \in Window, NEW i \in 0 .. win.data_len - 1
  PROVE  /\ ChronoSlot(win, i) \in Slots
         /\ ChronoSlot(win, i) =
              IF win.data_len < W THEN i
              ELSE IF win.write_cursor + i < W THEN win.write_cursor + i
                                               ELSE win.write_cursor + i - W
<1> DEFINE start == IF win.data_len < W THEN 0 ELSE win.write_cursor
<1>1. /\ win.data_len \in 0 .. W /\ win.write_cursor \in Slots
      /\ start \in Slots /\ i \in Slots
  BY DEF Window, Slots
<1>2. ChronoSlot(win, i) = (start + i) % W
  BY DEF ChronoSlot
<1>3. CASE start + i < W
  <2>1. (start + i) % W = start + i
    BY <1>1, <1>3, ModSmall DEF Slots
  <2>. QED  BY <1>1, <1>2, <1>3, <2>1 DEF Slots
<1>4. CASE start + i >= W
  <2>1. (start + i) % W = start + i - W
    BY <1>1, <1>4, ModWrap DEF Slots
  <2>. QED  BY <1>1, <1>2, <1>4, <2>1 DEF Slots
<1>. QED  BY <1>1, <1>3, <1>4 DEF Slots

(* Reading a window yields a sequence of entries of the window's length. *)
LEMMA ChronologicalType ==
  ASSUME NEW win \in Window
  PROVE  /\ Chronological(win) \in Seq(Entry)
         /\ Len(Chronological(win)) = win.data_len
         /\ \A i \in 1 .. win.data_len :
              Chronological(win)[i] =
                 [hash   |-> win.data[ChronoSlot(win, i - 1)],
                  height |-> win.heights[ChronoSlot(win, i - 1)]]
<1>1. win.data_len \in Nat
  BY DEF Window
<1>2. ASSUME NEW i \in 1 .. win.data_len
      PROVE  [hash   |-> win.data[ChronoSlot(win, i - 1)],
              height |-> win.heights[ChronoSlot(win, i - 1)]] \in Entry
  <2>1. ChronoSlot(win, i - 1) \in Slots
    BY <1>1, ChronoSlotValue
  <2>. QED  BY <2>1 DEF Window, Entry
<1>. QED  BY <1>1, <1>2 DEF Chronological

LEMMA WindowAppendType ==
  ASSUME NEW win \in Window, CursorInv(win), NEW h \in Hash, NEW ht \in Height
  PROVE  /\ WindowAppend(win, h, ht) \in Window
         /\ CursorInv(WindowAppend(win, h, ht))
<1>1. /\ win.write_cursor \in Slots
      /\ NextSlot(win.write_cursor) \in Slots
      /\ NextSlot(win.write_cursor) =
           IF win.write_cursor + 1 = W THEN 0 ELSE win.write_cursor + 1
  BY NextSlotValue DEF Window
<1>2. WindowAppend(win, h, ht) \in Window
  BY <1>1 DEF WindowAppend, Window
<1>3. CursorInv(WindowAppend(win, h, ht))
  BY <1>1 DEF WindowAppend, Window, CursorInv, Slots
<1>. QED  BY <1>2, <1>3

LEMMA NewWindowType == NewWindow \in Window /\ CursorInv(NewWindow)
  BY ZeroHashAssumption DEF NewWindow, Window, CursorInv, Slots

(* Appending to the ring pushes onto the sequence of the newest W entries:
   while the window fills the entry goes to the end, and once it is full the
   oldest entry falls off the front. *)
LEMMA AppendIsPush ==
  ASSUME NEW win \in Window, CursorInv(win), NEW h \in Hash, NEW ht \in Height
  PROVE  Chronological(WindowAppend(win, h, ht)) =
           Push(Chronological(win), [hash |-> h, height |-> ht])
<1> DEFINE new  == WindowAppend(win, h, ht)
           e    == [hash |-> h, height |-> ht]
           old  == Chronological(win)
           view == Chronological(new)
           cur  == win.write_cursor
<1>1. /\ win.data_len \in 0 .. W /\ cur \in Slots
      /\ win.data \in [Slots -> Hash] /\ win.heights \in [Slots -> Height]
      /\ e \in Entry
  BY DEF Window, Entry
<1>2. new \in Window
  BY WindowAppendType
<1>3. /\ new.data_len = IF win.data_len < W THEN win.data_len + 1 ELSE W
      /\ new.write_cursor = IF cur + 1 = W THEN 0 ELSE cur + 1
      /\ \A s \in Slots : new.data[s]    = IF s = cur THEN h ELSE win.data[s]
      /\ \A s \in Slots : new.heights[s] = IF s = cur THEN ht ELSE win.heights[s]
  BY <1>1, NextSlotValue DEF WindowAppend
<1> HIDE DEF new, e, old, view
<1>4. /\ old \in Seq(Entry) /\ Len(old) = win.data_len
      /\ \A i \in 1 .. win.data_len :
            old[i] = [hash   |-> win.data[ChronoSlot(win, i - 1)],
                      height |-> win.heights[ChronoSlot(win, i - 1)]]
  BY ChronologicalType DEF old
<1>5. /\ view \in Seq(Entry) /\ Len(view) = new.data_len
      /\ \A i \in 1 .. new.data_len :
            view[i] = [hash   |-> new.data[ChronoSlot(new, i - 1)],
                       height |-> new.heights[ChronoSlot(new, i - 1)]]
  BY <1>2, ChronologicalType DEF view
<1>6. CASE win.data_len < W
  <2>1. cur = win.data_len
    BY <1>6 DEF CursorInv
  <2>2. /\ Append(old, e) \in Seq(Entry)
        /\ Len(Append(old, e)) = new.data_len
    BY <1>1, <1>3, <1>4, <1>6
  <2>3. ASSUME NEW i \in 1 .. new.data_len
        PROVE  view[i] = Append(old, e)[i]
    <3>1. ChronoSlot(new, i - 1) = i - 1 /\ i - 1 \in Slots
      <4>1. /\ i - 1 \in 0 .. new.data_len - 1 /\ i - 1 \in Slots
            /\ new.data_len = W => new.write_cursor = 0
        BY <1>1, <1>3, <1>6, <2>1 DEF Slots
      <4>2. ChronoSlot(new, i - 1) =
              IF new.data_len < W THEN i - 1
              ELSE IF new.write_cursor + (i - 1) < W THEN new.write_cursor + (i - 1)
                                                     ELSE new.write_cursor + (i - 1) - W
        BY <1>2, <4>1, ChronoSlotValue
      <4>. QED  BY <1>1, <1>3, <1>6, <4>1, <4>2 DEF Slots
    <3>2. CASE i = new.data_len
      <4>1. i - 1 = cur
        BY <1>1, <1>3, <1>6, <2>1, <3>2
      <4>. QED  BY <1>1, <1>3, <1>4, <1>5, <1>6, <3>1, <3>2, <4>1 DEF e
    <3>3. CASE i # new.data_len
      <4>1. i \in 1 .. win.data_len /\ i - 1 # cur /\ i - 1 \in 0 .. win.data_len - 1
        BY <1>1, <1>3, <1>6, <2>1, <3>3
      <4>2. ChronoSlot(win, i - 1) = i - 1
        BY <1>6, <4>1, ChronoSlotValue
      <4>3. view[i] = old[i]
        <5>1. /\ new.data[i - 1] = win.data[i - 1]
              /\ new.heights[i - 1] = win.heights[i - 1]
          BY <1>3, <3>1, <4>1
        <5>2. old[i] = [hash |-> win.data[i - 1], height |-> win.heights[i - 1]]
          BY <1>4, <4>1, <4>2
        <5>3. view[i] = [hash |-> new.data[i - 1], height |-> new.heights[i - 1]]
          BY <1>5, <3>1
        <5>. QED  BY <5>1, <5>2, <5>3
      <4>. QED  BY <1>1, <1>4, <4>1, <4>3
    <3>. QED  BY <3>2, <3>3
  <2>4. view = Append(old, e)
    BY <1>5, <2>2, <2>3
  <2>. QED  BY <1>4, <1>6, <2>4 DEF Push, view, old, e, new
<1>7. CASE ~(win.data_len < W)
  <2>1. /\ win.data_len = W /\ new.data_len = W
        /\ Tail(old) \in Seq(Entry) /\ Len(Tail(old)) = W - 1
        /\ \A i \in 1 .. W - 1 : Tail(old)[i] = old[i + 1]
    BY <1>1, <1>3, <1>4, <1>7
  <2>2. /\ Append(Tail(old), e) \in Seq(Entry)
        /\ Len(Append(Tail(old), e)) = W
    BY <1>1, <2>1
  <2>3. ASSUME NEW i \in 1 .. W
        PROVE  view[i] = Append(Tail(old), e)[i]
    <3>1. /\ ChronoSlot(new, i - 1) \in Slots
          /\ ChronoSlot(new, i - 1) =
               IF new.write_cursor + (i - 1) < W THEN new.write_cursor + (i - 1)
                                                 ELSE new.write_cursor + (i - 1) - W
      BY <1>2, <2>1, ChronoSlotValue
    <3>2. CASE i = W
      <4>1. ChronoSlot(new, i - 1) = cur
        BY <1>1, <1>3, <3>1, <3>2 DEF Slots
      <4>2. view[i] = e
        BY <1>1, <1>3, <1>5, <2>1, <4>1 DEF e
      <4>. QED  BY <1>1, <2>1, <3>2, <4>2
    <3>3. CASE i # W
      <4>1. i \in 1 .. W - 1 /\ i \in 0 .. win.data_len - 1
        BY <2>1, <3>3
      <4>2. /\ ChronoSlot(win, i) = IF cur + i < W THEN cur + i ELSE cur + i - W
            /\ ChronoSlot(win, i) \in Slots
        BY <2>1, <4>1, ChronoSlotValue
      <4>3. ChronoSlot(new, i - 1) = ChronoSlot(win, i)
        BY <1>1, <1>3, <3>1, <4>1, <4>2 DEF Slots
      <4>4. ChronoSlot(win, i) # cur
        BY <1>1, <4>1, <4>2 DEF Slots
      <4>5. i + 1 \in 1 .. win.data_len /\ (i + 1) - 1 = i
        BY <2>1, <4>1
      <4>6. old[i + 1] = [hash   |-> win.data[ChronoSlot(win, i)],
                          height |-> win.heights[ChronoSlot(win, i)]]
        BY <1>4, <4>5
      <4>7. view[i] = old[i + 1]
        BY <1>3, <1>5, <2>1, <4>2, <4>3, <4>4, <4>6
      <4>. QED  BY <1>1, <2>1, <4>1, <4>7
    <3>. QED  BY <3>2, <3>3
  <2>4. view = Append(Tail(old), e)
    BY <1>5, <2>1, <2>2, <2>3
  <2>. QED  BY <1>4, <1>7, <2>4 DEF Push, view, old, e, new
<1>. QED  BY <1>6, <1>7

-----------------------------------------------------------------------------
(* The whole state. *)

IInv == TypeOK /\ CursorAtLength

LEMMA InitIInv == Init => IInv
<1> SUFFICES ASSUME Init PROVE IInv
  OBVIOUS
<1>1. windows \in [Layers -> Window] /\ \A l \in Layers : CursorInv(windows[l])
  BY NewWindowType DEF Init
<1>2. stored \in Stored
  BY DEF Init, Stored, AnyCommitment
<1>3. recent \in Seq(BundleResult) /\ Len(recent) <= RecentBundlesCap
  BY DEF Init
<1>. QED  BY <1>1, <1>2, <1>3 DEF IInv, TypeOK, CursorAtLength, CursorInv

LEMMA AppendBundleIInv ==
  ASSUME IInv, NEW n \in 0 .. MaxLayers, NEW height \in Height, NEW seq \in SeqNo,
         NEW c \in Commitment, NEW roots \in [1 .. n -> Hash],
         DoAppendBundle(roots, height, seq, c)
  PROVE  IInv'
<1>1. ASSUME NEW l \in Layers
      PROVE  /\ windows'[l] \in Window /\ CursorInv(windows'[l])
             /\ windows'[l] = IF l \in DOMAIN roots
                             THEN WindowAppend(windows[l], roots[l], height)
                             ELSE windows[l]
  <2>1. windows[l] \in Window /\ CursorInv(windows[l])
    BY DEF IInv, TypeOK, CursorAtLength, CursorInv
  <2>2. windows'[l] = IF l \in DOMAIN roots
                      THEN WindowAppend(windows[l], roots[l], height)
                      ELSE windows[l]
    BY DEF DoAppendBundle
  <2>3. l \in DOMAIN roots => roots[l] \in Hash
    OBVIOUS
  <2>. QED  BY <2>1, <2>2, <2>3, WindowAppendType
<1>2. windows' \in [Layers -> Window]
  BY <1>1 DEF DoAppendBundle
<1>3. stored' \in Stored
  BY DEF DoAppendBundle, IInv, TypeOK, Stored, AnyCommitment
<1>4. recent' \in Seq(BundleResult) /\ Len(recent') <= RecentBundlesCap
  BY DEF DoAppendBundle, IInv, TypeOK
<1>. QED  BY <1>1, <1>2, <1>3, <1>4 DEF IInv, TypeOK, CursorAtLength, CursorInv

LEMMA ApplyBkSetUpdateIInv ==
  ASSUME IInv, NEW old, NEW new \in Commitment, NEW seq \in SeqNo,
         DoApplyBkSetUpdate(old, new, seq)
  PROVE  IInv'
<1>1. stored' \in Stored
  BY DEF DoApplyBkSetUpdate, IInv, TypeOK, Stored, AnyCommitment
<1>. QED  BY <1>1 DEF DoApplyBkSetUpdate, IInv, TypeOK, CursorAtLength

LEMMA PushBundleResultIInv ==
  ASSUME IInv, NEW r \in BundleResult, DoPushBundleResult(r)
  PROVE  IInv'
<1>1. recent' \in Seq(BundleResult) /\ Len(recent') <= RecentBundlesCap
  BY DEF DoPushBundleResult, IInv, TypeOK
<1>. QED  BY <1>1 DEF DoPushBundleResult, IInv, TypeOK, CursorAtLength

LEMMA NextIInv == IInv /\ [Next]_vars => IInv'
<1> SUFFICES ASSUME IInv, [Next]_vars PROVE IInv'
  OBVIOUS
<1>1. CASE \E n \in 0 .. MaxLayers, height \in Height, seq \in SeqNo, c \in Commitment :
             \E roots \in [1 .. n -> Hash] : DoAppendBundle(roots, height, seq, c)
  BY <1>1, AppendBundleIInv
<1>2. CASE \E old \in AnyCommitment, new \in Commitment, seq \in SeqNo :
             DoApplyBkSetUpdate(old, new, seq)
  BY <1>2, ApplyBkSetUpdateIInv
<1>3. CASE \E r \in BundleResult : DoPushBundleResult(r)
  BY <1>3, PushBundleResultIInv
<1>4. CASE UNCHANGED vars
  BY <1>4 DEF vars, IInv, TypeOK, CursorAtLength
<1>. QED  BY <1>1, <1>2, <1>3, <1>4 DEF Next

(* Type correctness: the slot arrays keep their width, the cursor stays inside
   them and the ring of outcomes never exceeds its cap. *)
THEOREM TypeCorrect == Spec => []TypeOK
<1>1. IInv => TypeOK
  BY DEF IInv
<1>. QED  BY InitIInv, NextIInv, <1>1, PTL DEF Spec

(* A window that is not full has its write cursor right behind its entries,
   in every reachable state. *)
THEOREM CursorCorrect == Spec => []CursorAtLength
<1>1. IInv => CursorAtLength
  BY DEF IInv
<1>. QED  BY InitIInv, NextIInv, <1>1, PTL DEF Spec

-----------------------------------------------------------------------------
(* The layers in use. *)

(* A layer has roots only if every layer below it has: a key block publishes
   layers from the lowest up, and no window is ever emptied. *)
LayersFilled ==
  \A l \in Layers : windows[l].data_len > 0 =>
     \A k \in Layers : k <= l => windows[k].data_len > 0

LEMMA InitFilled == Init => LayersFilled
<1>1. Init => \A l \in Layers : windows[l].data_len = 0
  BY DEF Init, NewWindow
<1>. QED  BY <1>1 DEF LayersFilled

LEMMA AppendBundleFilled ==
  ASSUME IInv, LayersFilled, NEW n \in 0 .. MaxLayers, NEW height \in Height,
         NEW roots \in [1 .. n -> Hash], NEW seq, NEW c,
         DoAppendBundle(roots, height, seq, c)
  PROVE  LayersFilled'
<1>1. ASSUME NEW l \in Layers
      PROVE  windows'[l].data_len > 0 <=> l \in 1 .. n \/ windows[l].data_len > 0
  <2>1. windows[l].data_len \in 0 .. W
    BY DEF IInv, TypeOK, Window
  <2>2. windows'[l] = IF l \in 1 .. n THEN WindowAppend(windows[l], roots[l], height)
                                      ELSE windows[l]
    BY DEF DoAppendBundle
  <2>3. l \in 1 .. n => windows'[l].data_len =
           IF windows[l].data_len < W THEN windows[l].data_len + 1 ELSE windows[l].data_len
    BY <2>2 DEF WindowAppend
  <2>. QED  BY <2>1, <2>2, <2>3
<1>2. ASSUME NEW l \in Layers, NEW k \in Layers, k <= l, windows'[l].data_len > 0
      PROVE  windows'[k].data_len > 0
  <2>1. CASE l \in 1 .. n
    <3>1. k \in 1 .. n
      BY <1>2, <2>1 DEF Layers
    <3>. QED  BY <1>1, <3>1
  <2>2. CASE windows[l].data_len > 0
    <3>1. windows[k].data_len > 0
      BY <1>2, <2>2 DEF LayersFilled
    <3>. QED  BY <1>1, <3>1
  <2>. QED  BY <1>1, <1>2, <2>1, <2>2
<1>. QED  BY <1>2 DEF LayersFilled

LEMMA NextFilled == IInv /\ LayersFilled /\ [Next]_vars => LayersFilled'
<1> SUFFICES ASSUME IInv, LayersFilled, [Next]_vars PROVE LayersFilled'
  OBVIOUS
<1>1. CASE \E n \in 0 .. MaxLayers, height \in Height, seq \in SeqNo, c \in Commitment :
             \E roots \in [1 .. n -> Hash] : DoAppendBundle(roots, height, seq, c)
  BY <1>1, AppendBundleFilled
<1>2. CASE UNCHANGED windows
  BY <1>2 DEF LayersFilled
<1>3. CASE \E old \in AnyCommitment, new \in Commitment, seq \in SeqNo :
             DoApplyBkSetUpdate(old, new, seq)
  BY <1>2, <1>3 DEF DoApplyBkSetUpdate
<1>4. CASE \E r \in BundleResult : DoPushBundleResult(r)
  BY <1>2, <1>4 DEF DoPushBundleResult
<1>. QED  BY <1>1, <1>2, <1>3, <1>4 DEF Next, vars

(* Counting the layers in use gives the highest of them. *)
LEMMA CountIsHighest ==
  ASSUME IInv, LayersFilled
  PROVE  /\ NumActiveLayers \in Nat
         /\ \A l \in Layers : windows[l].data_len > 0 <=> l <= NumActiveLayers
<1> DEFINE active == {l \in Layers : windows[l].data_len > 0}
           t == Cardinality(active)
<1>1. NumActiveLayers = t
  BY DEF NumActiveLayers
<1>2. IsFiniteSet(active) /\ t \in Nat
  <2>1. IsFiniteSet(Layers)
    BY FS_Interval DEF Layers
  <2>. QED  BY <2>1, FS_Subset, FS_CardinalityType
<1>3. ASSUME NEW l \in active
      PROVE  l \in 1 .. t
  <2>1. 1 .. l \subseteq active
    BY DEF LayersFilled, Layers
  <2>2. Cardinality(1 .. l) = l
    BY FS_Interval DEF Layers
  <2>3. l <= t
    BY <1>2, <2>1, <2>2, FS_Subset
  <2>. QED  BY <1>2, <2>3 DEF Layers
<1>4. 1 .. t = active
  <2>1. IsFiniteSet(1 .. t) /\ Cardinality(1 .. t) = t
    BY <1>2, FS_Interval
  <2>2. active \in SUBSET (1 .. t)
    BY <1>3
  <2>. QED  BY <2>1, <2>2, FS_Subset
<1>5. ASSUME NEW l \in Layers
      PROVE  windows[l].data_len > 0 <=> l <= t
  <2>1. l \in active <=> l \in 1 .. t
    BY <1>4
  <2>. QED  BY <1>2, <2>1 DEF Layers
<1>. QED  BY <1>1, <1>2, <1>5

(* The slot before the write cursor holds the newest entry. *)
LEMMA LatestIsNewest ==
  ASSUME NEW win \in Window, CursorInv(win), win.data_len > 0
  PROVE  WindowLatest(win) = Chronological(win)[Len(Chronological(win))].hash
<1>1. /\ win.data_len \in 1 .. W /\ win.write_cursor \in 0 .. W - 1
  BY DEF Window, Slots
<1>2. Chronological(win)[Len(Chronological(win))].hash
        = win.data[ChronoSlot(win, win.data_len - 1)]
  <2>1. win.data_len \in 1 .. win.data_len
    BY <1>1
  <2>2. Len(Chronological(win)) = win.data_len
    BY ChronologicalType
  <2>3. Chronological(win)[win.data_len] =
          [hash   |-> win.data[ChronoSlot(win, win.data_len - 1)],
           height |-> win.heights[ChronoSlot(win, win.data_len - 1)]]
    BY <2>1, ChronologicalType
  <2>. QED  BY <2>2, <2>3
<1>3. (win.write_cursor + W - 1) % W
        = IF win.write_cursor = 0 THEN W - 1 ELSE win.write_cursor - 1
  <2>1. CASE win.write_cursor = 0
    BY <1>1, <2>1, ModSmall
  <2>2. CASE win.write_cursor > 0
    <3> DEFINE a == win.write_cursor + W - 1
    <3>1. a \in W .. 2 * W - 1
      BY <1>1, <2>2
    <3>. HIDE DEF a
    <3>2. a % W = a - W
      BY <3>1, ModWrap
    <3>. QED  BY <1>1, <2>2, <3>2 DEF a
  <2>. QED  BY <1>1, <2>1, <2>2
<1>4. ChronoSlot(win, win.data_len - 1)
        = IF win.write_cursor = 0 THEN W - 1 ELSE win.write_cursor - 1
  <2>1. ChronoSlot(win, win.data_len - 1) =
          IF win.data_len < W THEN win.data_len - 1
          ELSE IF win.write_cursor + win.data_len - 1 < W THEN win.write_cursor + win.data_len - 1
                                            ELSE win.write_cursor + win.data_len - 1 - W
    BY <1>1, ChronoSlotValue
  <2>. QED  BY <1>1, <2>1 DEF CursorInv
<1>. QED  BY <1>2, <1>3, <1>4 DEF WindowLatest

LEMMA ChainStart == IInv /\ LayersFilled => ChainStartIsNewestRoot
<1> SUFFICES ASSUME IInv, LayersFilled, NEW n \in Layers,
                    NEW low \in Layers, low <= n, windows[low].data_len > 0
             PROVE  \E top \in {l \in Layers : l <= n /\ windows[l].data_len > 0} :
                      /\ \A l \in {k \in Layers : k <= n /\ windows[k].data_len > 0} : l <= top
                      /\ LET view == Chronological(windows[top])
                         IN  PrevMaxLevelLayerHashFor(n) = view[Len(view)].hash
  BY DEF ChainStartIsNewestRoot
<1> DEFINE t == NumActiveLayers
           top == IF n >= t THEN t ELSE n
<1>1. t \in Nat /\ \A l \in Layers : windows[l].data_len > 0 <=> l <= t
  BY CountIsHighest
<1>2. t >= 1 /\ top \in Layers /\ top <= n /\ top <= t
  BY <1>1 DEF Layers
<1>3. windows[top].data_len > 0
  BY <1>1, <1>2
<1>4. \A l \in Layers : l <= n /\ windows[l].data_len > 0 => l <= top
  BY <1>1
<1>5. windows[top] \in Window /\ CursorInv(windows[top])
  BY <1>2 DEF IInv, TypeOK, CursorAtLength, CursorInv
<1>6. PrevMaxLevelLayerHashFor(n) = WindowLatest(windows[top])
  <2>1. windows[top].data_len # 0 /\ t # 0 /\ top # 0
    BY <1>2, <1>3 DEF Layers
  <2>. QED  BY <2>1 DEF PrevMaxLevelLayerHashFor
<1>7. PrevMaxLevelLayerHashFor(n)
        = Chronological(windows[top])[Len(Chronological(windows[top]))].hash
  BY <1>3, <1>5, <1>6, LatestIsNewest
<1>. HIDE DEF top
<1>. QED  BY <1>2, <1>3, <1>4, <1>7

(* The chain of the next proof starts at the newest root of the highest layer
   in use, capped at the layers of the key block, for every number of layers and
   every width. *)
THEOREM ChainStartCorrect == Spec => []ChainStartIsNewestRoot
<1>1. Init => IInv /\ LayersFilled
  BY InitIInv, InitFilled
<1>2. IInv /\ LayersFilled /\ [Next]_vars => (IInv /\ LayersFilled)'
  BY NextIInv, NextFilled
<1>. QED  BY <1>1, <1>2, ChainStart, PTL DEF Spec

-----------------------------------------------------------------------------
(* Refinement of the contract's history record. *)

(* The value the ring buffers stand for is a well-formed history record. *)
LEMMA AbstractType ==
  ASSUME IInv
  PROVE  Abstract \in Mirror
<1>1. [l \in Layers |-> Chronological(windows[l])] \in [Layers -> Seq(Entry)]
  BY ChronologicalType DEF IInv, TypeOK
<1>. QED  BY <1>1 DEF Abstract, Mirror, IInv, TypeOK, Stored

LEMMA InitRefines == Init => Contract!Init
<1> SUFFICES ASSUME Init PROVE Abstract = Contract!NewMirror
  BY DEF Contract!Init
<1>1. Chronological(NewWindow) = << >>
  BY ChronologicalType, NewWindowType DEF NewWindow
<1>2. [l \in Layers |-> Chronological(windows[l])] = [l \in Layers |-> << >>]
  BY <1>1 DEF Init
<1>. QED  BY <1>2 DEF Init, Abstract, Contract!NewMirror, Contract!Layers, Layers

LEMMA AppendRefines ==
  ASSUME IInv, NEW n \in 0 .. MaxLayers, NEW height \in Height, NEW seq \in SeqNo,
         NEW c \in Commitment, NEW roots \in [1 .. n -> Hash],
         DoAppendBundle(roots, height, seq, c)
  PROVE  Abstract' = AppendBundle(Abstract, roots, height, seq, c)
<1> DEFINE pushed(l) == IF l \in DOMAIN roots
                        THEN Push(Abstract.recent[l],
                                  [hash |-> roots[l], height |-> height])
                        ELSE Abstract.recent[l]
<1>1. ASSUME NEW l \in Layers
      PROVE  Chronological(windows'[l]) = pushed(l)
  <2>1. windows[l] \in Window /\ CursorInv(windows[l])
    BY DEF IInv, TypeOK, CursorAtLength, CursorInv
  <2>2. windows'[l] = IF l \in DOMAIN roots
                      THEN WindowAppend(windows[l], roots[l], height)
                      ELSE windows[l]
    BY DEF DoAppendBundle
  <2>3. Abstract.recent[l] = Chronological(windows[l])
    BY DEF Abstract
  <2>4. CASE l \in DOMAIN roots
    <3>1. roots[l] \in Hash
      BY <2>4
    <3>. QED  BY <2>1, <2>2, <2>3, <2>4, <3>1, AppendIsPush
  <2>5. CASE l \notin DOMAIN roots
    BY <2>2, <2>3, <2>5
  <2>. QED  BY <2>4, <2>5
<1>2. Abstract'.recent = [l \in Layers |-> pushed(l)]
  BY <1>1 DEF Abstract
<1>3. stored' = [stored EXCEPT !.commitment = c, !.lastSeq = seq,
                               !.lastHeight = height, !.initialized = TRUE]
  BY DEF DoAppendBundle
<1>4. stored \in Stored
  BY DEF IInv, TypeOK
<1> HIDE DEF pushed
<1>5. Abstract' = [recent |-> [l \in Layers |-> pushed(l)], commitment |-> c,
                   lastSeq |-> seq, lastHeight |-> height, initialized |-> TRUE,
                   updCursor |-> stored.updCursor]
  BY <1>2, <1>3, <1>4 DEF Abstract, Stored
<1>6. AppendBundle(Abstract, roots, height, seq, c) =
        [recent |-> [l \in Layers |-> pushed(l)], commitment |-> c,
         lastSeq |-> seq, lastHeight |-> height, initialized |-> TRUE,
         updCursor |-> stored.updCursor]
  <2>1. Abstract \in Mirror
    BY AbstractType
  <2>2. [l \in Layers |-> IF l \in DOMAIN roots
                         THEN Push(Abstract.recent[l],
                                   [hash |-> roots[l], height |-> height])
                         ELSE Abstract.recent[l]] = [l \in Layers |-> pushed(l)]
    BY DEF pushed
  <2>3. Abstract.updCursor = stored.updCursor
    BY DEF Abstract
  <2>. QED  BY <2>1, <2>2, <2>3 DEF AppendBundle, Mirror
<1>. QED  BY <1>5, <1>6

LEMMA StepRefines == IInv /\ [Next]_vars => [Contract!Next]_Abstract
<1> SUFFICES ASSUME IInv, [Next]_vars PROVE [Contract!Next]_Abstract
  OBVIOUS
<1>1. ASSUME NEW n \in 0 .. MaxLayers, NEW height \in Height, NEW seq \in SeqNo,
             NEW c \in Commitment, NEW roots \in [1 .. n -> Hash],
             DoAppendBundle(roots, height, seq, c)
      PROVE  Contract!AppendStep
  <2>1. Abstract' = AppendBundle(Abstract, roots, height, seq, c)
    BY <1>1, AppendRefines
  <2>2. Abstract' = Contract!AppendBundle(Abstract, roots, height, seq, c)
    BY <2>1 DEF AppendBundle, Contract!AppendBundle, Layers, Contract!Layers,
                Push, Contract!Push
  <2>. QED  BY <2>2 DEF Contract!AppendStep, Layers, Contract!Layers
<1>2. ASSUME NEW old, NEW new \in Commitment, NEW seq \in SeqNo,
             DoApplyBkSetUpdate(old, new, seq)
      PROVE  Contract!UpdateStep
  <2>1. seq > Abstract.updCursor
    BY <1>2 DEF DoApplyBkSetUpdate, Abstract
  <2>2. Abstract' = Contract!ApplyBkSetUpdate(Abstract, new, seq)
    <3>1. Abstract \in Mirror
      BY AbstractType
    <3>2. Abstract' = [recent |-> Abstract.recent, commitment |-> new,
                       lastSeq |-> Abstract.lastSeq, lastHeight |-> Abstract.lastHeight,
                       initialized |-> Abstract.initialized, updCursor |-> seq]
      BY <1>2 DEF DoApplyBkSetUpdate, Abstract, IInv, TypeOK, Stored
    <3>. QED  BY <3>1, <3>2 DEF Contract!ApplyBkSetUpdate, Mirror
  <2>. QED  BY <2>1, <2>2 DEF Contract!UpdateStep
<1>3. ASSUME NEW r \in BundleResult, DoPushBundleResult(r)
      PROVE  UNCHANGED Abstract
  BY <1>3 DEF DoPushBundleResult, Abstract
<1>4. CASE UNCHANGED vars
  BY <1>4 DEF vars, Abstract
<1>. QED  BY <1>1, <1>2, <1>3, <1>4 DEF Next, Contract!Next

(* The ring buffers of BridgeState implement the contract's history record:
   their chronological reading is the newest W entries of every layer, for
   every width, through every wrap of the write cursor. *)
THEOREM Refinement == Spec => ImplementsContract
<1>. QED  BY InitIInv, NextIInv, InitRefines, StepRefines, PTL
          DEF Spec, ImplementsContract, Contract!Spec
=============================================================================
