------------------------- MODULE NetFailoverProofs -------------------------
(* Theorems about NetFailover, for loops and queues of any length.         *)
EXTENDS NetFailover, TLAPS

(* What a post at the end does to the newest element that decides.         *)
LEMMA NewestAppend ==
    ASSUME NEW S, NEW q \in Seq(S), NEW e \in S, NEW Yes, NEW No, Yes # No, NEW k
    PROVE  /\ e = Yes => Newest(Append(q, e), Yes, No, k)
           /\ e = No => ~Newest(Append(q, e), Yes, No, k)
           /\ e \notin {Yes, No} =>
                (Newest(Append(q, e), Yes, No, k) <=> Newest(q, Yes, No, k))
<1> DEFINE p == Append(q, e)
<1>1. /\ p \in Seq(S) /\ Len(p) = Len(q) + 1 /\ p[Len(q) + 1] = e
      /\ Len(q) \in Nat /\ \A i \in 1..Len(q) : p[i] = q[i]
      /\ Len(q) + 1 \in 1..Len(p)
  OBVIOUS
<1> HIDE DEF p
<1>2. e = Yes => Newest(p, Yes, No, k)
  <2> SUFFICES ASSUME e = Yes PROVE Newest(p, Yes, No, k)
    OBVIOUS
  <2>1. \A j \in (Len(q) + 1 + 1)..Len(p) : p[j] \notin {Yes, No}
    BY <1>1
  <2> QED
    BY <1>1, <2>1 DEF Newest
<1>3. e = No => ~Newest(p, Yes, No, k)
  <2> SUFFICES ASSUME e = No, NEW i \in 1..Len(p), p[i] = Yes PROVE Len(q) + 1 \in (i+1)..Len(p)
    BY <1>1 DEF Newest
  <2>1. i # Len(q) + 1
    BY <1>1
  <2> QED
    BY <1>1, <2>1
<1>4. ASSUME e \notin {Yes, No}
      PROVE  Newest(p, Yes, No, k) <=> Newest(q, Yes, No, k)
  <2>1. \A i \in 1..Len(p) : i \in 1..Len(q) \/ i = Len(q) + 1
    BY <1>1
  <2>2. 1..Len(q) \subseteq 1..Len(p)
    BY <1>1
  <2>3. ASSUME NEW i \in 1..Len(q)
        PROVE  (\A j \in (i+1)..Len(p) : p[j] \notin {Yes, No})
                 <=> (\A j \in (i+1)..Len(q) : q[j] \notin {Yes, No})
    BY <1>1, <1>4
  <2>4. (\A i \in 1..Len(p) : p[i] \notin {Yes, No})
          <=> (\A i \in 1..Len(q) : q[i] \notin {Yes, No})
    BY <1>1, <1>4, <2>1, <2>2
  <2>5. (\E i \in 1..Len(p) : p[i] = Yes /\ \A j \in (i+1)..Len(p) : p[j] \notin {Yes, No})
          <=> (\E i \in 1..Len(q) : q[i] = Yes /\ \A j \in (i+1)..Len(q) : q[j] \notin {Yes, No})
    BY <1>1, <1>4, <2>1, <2>2, <2>3
  <2> QED
    BY <2>4, <2>5 DEF Newest
<1> QED
  BY <1>2, <1>3, <1>4 DEF p

(* What taking the first one off does to it.                               *)
LEMMA NewestTail ==
    ASSUME NEW S, NEW q \in Seq(S), q # <<>>, NEW Yes, NEW No, Yes # No, NEW k
    PROVE  /\ Head(q) = Yes => (Newest(Tail(q), Yes, No, TRUE) <=> Newest(q, Yes, No, k))
           /\ Head(q) = No => (Newest(Tail(q), Yes, No, FALSE) <=> Newest(q, Yes, No, k))
           /\ Head(q) \notin {Yes, No} =>
                (Newest(Tail(q), Yes, No, k) <=> Newest(q, Yes, No, k))
<1> DEFINE p == Tail(q)
<1> DEFINE Last(s) == \E i \in 1..Len(s) :
                        s[i] = Yes /\ \A j \in (i+1)..Len(s) : s[j] \notin {Yes, No}
<1> DEFINE None(s) == \A i \in 1..Len(s) : s[i] \notin {Yes, No}
<1>1. /\ p \in Seq(S) /\ Len(q) \in Nat /\ Len(p) \in Nat /\ Len(q) = Len(p) + 1
      /\ \A i \in 1..Len(p) : p[i] = q[i + 1]
      /\ q[1] = Head(q)
  OBVIOUS
<1> HIDE DEF p
<1>2. ASSUME NEW i \in 1..Len(p)
      PROVE  (\A j \in (i+1)..Len(p) : p[j] \notin {Yes, No})
               <=> (\A j \in (i+1+1)..Len(q) : q[j] \notin {Yes, No})
  <2>1. \A j \in (i+1)..Len(p) : j + 1 \in (i+1+1)..Len(q) /\ p[j] = q[j + 1]
    BY <1>1
  <2>2. \A j \in (i+1+1)..Len(q) : j - 1 \in (i+1)..Len(p) /\ p[j - 1] = q[j]
    BY <1>1
  <2> QED
    BY <2>1, <2>2
<1>3. None(p) <=> \A j \in 2..Len(q) : q[j] \notin {Yes, No}
  <2>1. \A j \in 1..Len(p) : j + 1 \in 2..Len(q) /\ p[j] = q[j + 1]
    BY <1>1
  <2>2. \A j \in 2..Len(q) : j - 1 \in 1..Len(p) /\ p[j - 1] = q[j]
    BY <1>1
  <2> QED
    BY <2>1, <2>2
<1>4. None(q) <=> Head(q) \notin {Yes, No} /\ None(p)
  <2>1. 1 \in 1..Len(q) /\ 2..Len(q) \subseteq 1..Len(q)
    BY <1>1
  <2>2. \A j \in 1..Len(q) : j = 1 \/ j \in 2..Len(q)
    BY <1>1
  <2> QED
    BY <1>1, <1>3, <2>1, <2>2
<1>5. Last(q) <=> Last(p) \/ (Head(q) = Yes /\ None(p))
  <2>1. ASSUME Last(q) PROVE Last(p) \/ (Head(q) = Yes /\ None(p))
    <3>1. PICK i \in 1..Len(q) :
             q[i] = Yes /\ \A j \in (i+1)..Len(q) : q[j] \notin {Yes, No}
      BY <2>1
    <3>2. CASE i = 1
      BY <1>1, <1>3, <3>1, <3>2
    <3>3. CASE i # 1
      <4>1. i - 1 \in 1..Len(p) /\ p[i - 1] = q[i]
        BY <1>1, <3>3
      <4>2. i - 1 + 1 + 1 = i + 1
        OBVIOUS
      <4>3. \A j \in (i - 1 + 1)..Len(p) : p[j] \notin {Yes, No}
        BY <1>2, <3>1, <4>1, <4>2
      <4> QED
        BY <3>1, <4>1, <4>3
    <3> QED
      BY <3>2, <3>3
  <2>2. ASSUME Last(p) PROVE Last(q)
    <3>1. PICK i \in 1..Len(p) :
             p[i] = Yes /\ \A j \in (i+1)..Len(p) : p[j] \notin {Yes, No}
      BY <2>2
    <3>2. i + 1 \in 1..Len(q) /\ q[i + 1] = Yes
      BY <1>1, <3>1
    <3> QED
      BY <1>2, <3>1, <3>2
  <2>3. ASSUME Head(q) = Yes, None(p) PROVE Last(q)
    <3>1. 1 \in 1..Len(q) /\ q[1] = Yes /\ 1 + 1 = 2
      BY <1>1, <2>3
    <3>2. \A j \in (1+1)..Len(q) : q[j] \notin {Yes, No}
      BY <1>3, <2>3, <3>1
    <3> QED
      BY <3>1, <3>2
  <2> QED
    BY <2>1, <2>2, <2>3
<1>6. ASSUME NEW s, NEW b PROVE Newest(s, Yes, No, b) <=> Last(s) \/ (b /\ None(s))
  BY DEF Newest
<1>7. \A b : Newest(p, Yes, No, b) <=> Last(p) \/ (b /\ None(p))
  BY <1>6
<1>8. Newest(q, Yes, No, k) <=> Last(q) \/ (k /\ None(q))
  BY <1>6
<1> HIDE DEF Last, None
<1>9. Head(q) = Yes => (Newest(p, Yes, No, TRUE) <=> Newest(q, Yes, No, k))
  BY <1>4, <1>5, <1>7, <1>8
<1>10. Head(q) = No => (Newest(p, Yes, No, FALSE) <=> Newest(q, Yes, No, k))
  BY <1>4, <1>5, <1>7, <1>8
<1>11. Head(q) \notin {Yes, No} => (Newest(p, Yes, No, k) <=> Newest(q, Yes, No, k))
  <2>1. Newest(p, Yes, No, k) <=> Last(p) \/ (k /\ None(p))
    BY <1>7
  <2> QED
    BY <1>4, <1>5, <1>8, <2>1
<1> QED
  BY <1>9, <1>10, <1>11 DEF p

(* Only whether the earlier value is true matters.                         *)
LEMMA NewestKnown ==
    ASSUME NEW q, NEW Yes, NEW No, NEW k, NEW b, k <=> b
    PROVE  Newest(q, Yes, No, k) <=> Newest(q, Yes, No, b)
  BY DEF Newest

---------------------------------------------------------------------------
(* Posts.                                                                  *)

LEMMA PostedCases ==
    ASSUME NetAssumption, NEW l \in Seq(Events), NEW e \in Events
    PROVE  /\ Posted(l, e) \in Seq(Events)
           /\ Len(l) <= LoopLen => Len(Posted(l, e)) <= LoopLen
           /\ \/ ~Lost(l) /\ Posted(l, e) = Append(l, e)
              \/ Lost(l) /\ Posted(l, e) = l
<1>1. Len(l) \in Nat /\ Append(l, e) \in Seq(Events) /\ Len(Append(l, e)) = Len(l) + 1
  OBVIOUS
<1>2. CASE Len(l) < LoopLen
  BY <1>1, <1>2 DEF Posted, Lost, NetAssumption
<1>3. CASE ~(Len(l) < LoopLen)
  BY <1>1, <1>3 DEF Posted, Lost, NetAssumption
<1> QED
  BY <1>2, <1>3

(* A post of another task adds its event, or loses it.                     *)
LEMMA PostCases ==
    ASSUME NetAssumption, TypeOK, NEW e \in Events, Post(e)
    PROVE  /\ loop' \in Seq(Events) /\ missed' \in BOOLEAN
           /\ Len(loop') <= LoopLen + (IF busy THEN 1 ELSE 0)
           /\ busy => loop' # <<>>
           /\ \/ loop' = Append(loop, e) /\ (missed' <=> missed)
              \/ loop' = loop /\ missed'
<1>1. loop \in Seq(Events) /\ missed \in BOOLEAN /\ Len(loop) \in Nat /\ LoopLen \in Nat
  BY DEF TypeOK, NetAssumption
<1>2. CASE ~busy
  <2>1. loop' = Posted(loop, e) /\ missed' = (missed \/ Lost(loop))
    BY <1>2 DEF Post
  <2>2. Len(loop) <= LoopLen
    BY <1>1, <1>2 DEF TypeOK
  <2> DEFINE p == Posted(loop, e)
  <2>3. /\ p \in Seq(Events) /\ Len(p) <= LoopLen
        /\ \/ ~Lost(loop) /\ p = Append(loop, e)
           \/ Lost(loop) /\ p = loop
    BY <1>1, <2>2, PostedCases
  <2>4. loop' = p
    BY <2>1 DEF p
  <2>5. Lost(loop) \in BOOLEAN
    BY DEF Lost
  <2> HIDE DEF p
  <2>6. Len(loop') <= LoopLen + (IF busy THEN 1 ELSE 0)
    BY <1>1, <1>2, <2>3, <2>4
  <2> QED
    BY <1>1, <1>2, <2>1, <2>3, <2>4, <2>5, <2>6
<1>3. CASE busy
  <2>1. /\ loop' = <<Head(loop)>> \o Posted(Tail(loop), e)
        /\ missed' = (missed \/ Lost(Tail(loop)))
    BY <1>3 DEF Post
  <2>2. loop # <<>> /\ Len(loop) <= LoopLen + 1
    BY <1>3 DEF TypeOK
  <2>3. /\ Tail(loop) \in Seq(Events) /\ Len(Tail(loop)) = Len(loop) - 1
        /\ Head(loop) \in Events
    BY <1>1, <2>2
  <2>4. <<Head(loop)>> \o Tail(loop) = loop
    BY <1>1, <2>2
  <2>5. <<Head(loop)>> \o Append(Tail(loop), e) = Append(loop, e)
    BY <1>1, <2>2, <2>3
  <2>6. Len(Tail(loop)) <= LoopLen
    BY <1>1, <2>2, <2>3
  <2> DEFINE p == Posted(Tail(loop), e)
  <2>7. /\ p \in Seq(Events) /\ Len(p) <= LoopLen
        /\ \/ ~Lost(Tail(loop)) /\ p = Append(Tail(loop), e)
           \/ Lost(Tail(loop)) /\ p = Tail(loop)
    BY <2>3, <2>6, PostedCases
  <2> HIDE DEF p
  <2>8. /\ <<Head(loop)>> \o p \in Seq(Events)
        /\ Len(<<Head(loop)>> \o p) = Len(p) + 1
        /\ <<Head(loop)>> \o p # <<>>
    BY <2>3, <2>7
  <2>9. loop' = <<Head(loop)>> \o p
    BY <2>1 DEF p
  <2>10. Len(p) + 1 <= LoopLen + 1
    BY <1>1, <2>7
  <2> QED
    BY <1>1, <1>3, <2>1, <2>4, <2>5, <2>7, <2>8, <2>9, <2>10
<1> QED
  BY <1>2, <1>3

---------------------------------------------------------------------------
(* What the driver does when it is stopped, started or connected.          *)

Stations == {"stopped", "idle"} \cup Active
Drivers  == [sta : Stations, loop : {l \in Seq(Events) : Len(l) <= LoopLen},
             missed : BOOLEAN]

Attempted(l) == \E i \in 1..Len(l) : l[i] \in {"StaStart", "StaDisconnected"}
NoCable(l)   == \A i \in 1..Len(l) : l[i] \notin {"CableUp", "CableDown"}

Cable(l, k) == Newest(l, "CableUp", "CableDown", k)
Eth(l, k)   == Newest(l, "EthGotIp", "CableDown", k)
Wifi(l, k)  == Newest(l, "StaGotIp", "StaDisconnected", k)

(* From c to d it tells what happened to the station and nothing else.     *)
Tells(c, d) ==
    /\ d \in Drivers
    /\ NoCable(c.loop) => NoCable(d.loop)
    /\ ~d.missed => ~c.missed
    /\ ~d.missed => \A k \in BOOLEAN : /\ Cable(d.loop, k) <=> Cable(c.loop, k)
                                       /\ Eth(d.loop, k) <=> Eth(c.loop, k)
    /\ ~d.missed => \A k \in BOOLEAN : (Wifi(c.loop, k) <=> c.sta = "online")
                                         => (Wifi(d.loop, k) <=> d.sta = "online")
    /\ (c.sta = "idle" => c.missed \/ Attempted(c.loop))
         => (d.sta = "idle" => d.missed \/ Attempted(d.loop))

LEMMA AttemptedAppend ==
    ASSUME NEW S, NEW l \in Seq(S), NEW e \in S
    PROVE  /\ Attempted(l) => Attempted(Append(l, e))
           /\ e \in {"StaStart", "StaDisconnected"} => Attempted(Append(l, e))
<1>1. /\ Len(l) \in Nat /\ Len(Append(l, e)) = Len(l) + 1
      /\ \A i \in 1..Len(l) : i \in 1..(Len(l) + 1) /\ Append(l, e)[i] = l[i]
      /\ Append(l, e)[Len(l) + 1] = e /\ Len(l) + 1 \in 1..(Len(l) + 1)
  OBVIOUS
<1> QED
  BY <1>1 DEF Attempted

LEMMA AttemptedTail ==
    ASSUME NEW S, NEW l \in Seq(S), l # <<>>, Attempted(l),
           Head(l) \notin {"StaStart", "StaDisconnected"}
    PROVE  Attempted(Tail(l))
<1>1. PICK i \in 1..Len(l) : l[i] \in {"StaStart", "StaDisconnected"}
  BY DEF Attempted
<1>2. /\ Len(l) \in Nat /\ Len(Tail(l)) = Len(l) - 1 /\ l[1] = Head(l)
      /\ \A j \in 1..Len(Tail(l)) : Tail(l)[j] = l[j + 1]
  OBVIOUS
<1>3. i - 1 \in 1..Len(Tail(l)) /\ i - 1 + 1 = i
  BY <1>1, <1>2
<1>4. Tail(l)[i - 1] \in {"StaStart", "StaDisconnected"}
  BY <1>1, <1>2, <1>3
<1> QED
  BY <1>3, <1>4 DEF Attempted

LEMMA NoCableAppend ==
    ASSUME NEW S, NEW l \in Seq(S), NEW e \in S, NoCable(l), e \notin {"CableUp", "CableDown"}
    PROVE  NoCable(Append(l, e))
<1>1. /\ Len(l) \in Nat /\ Len(Append(l, e)) = Len(l) + 1
      /\ \A i \in 1..(Len(l) + 1) : i \in 1..Len(l) \/ i = Len(l) + 1
      /\ \A i \in 1..Len(l) : Append(l, e)[i] = l[i]
      /\ Append(l, e)[Len(l) + 1] = e
  OBVIOUS
<1> QED
  BY <1>1 DEF NoCable

LEMMA NoCableTail ==
    ASSUME NEW S, NEW l \in Seq(S), l # <<>>, NoCable(l)
    PROVE  NoCable(Tail(l)) /\ Head(l) \notin {"CableUp", "CableDown"}
<1>1. /\ Len(l) \in Nat /\ Len(Tail(l)) = Len(l) - 1 /\ l[1] = Head(l) /\ 1 \in 1..Len(l)
      /\ \A j \in 1..Len(Tail(l)) : Tail(l)[j] = l[j + 1] /\ j + 1 \in 1..Len(l)
  OBVIOUS
<1> QED
  BY <1>1 DEF NoCable

LEMMA TellsTrans ==
    ASSUME NEW a, NEW b, NEW c, Tells(a, b), Tells(b, c)
    PROVE  Tells(a, c)
  BY DEF Tells

LEMMA TellsStart ==
    ASSUME NEW d \in Drivers
    PROVE  Tells(d, d)
  BY DEF Tells

(* A connection attempt, or the station stopped without a connection.      *)
LEMMA TellsNothing ==
    ASSUME NEW d \in Drivers, NEW s \in Stations \ {"idle"}, s = "online" <=> d.sta = "online"
    PROVE  Tells(d, [d EXCEPT !.sta = s])
<1> DEFINE c == [d EXCEPT !.sta = s]
<1>1. c \in Drivers /\ c.sta = s /\ c.loop = d.loop /\ c.missed = d.missed
  BY DEF Drivers
<1> HIDE DEF c
<1>2. Tells(d, c)
  BY <1>1 DEF Tells
<1> QED
  BY <1>2 DEF c

(* An event that says the station is not connected, when it is not.        *)
LEMMA TellsEvent ==
    ASSUME NetAssumption, NEW d \in Drivers, NEW s \in Stations \ {"online"},
           NEW e \in {"StaStart", "StaDisconnected"},
           e = "StaStart" => d.sta # "online"
    PROVE  Tells(d, Driver(s, Posted(d.loop, e), d.missed \/ Lost(d.loop)))
<1> DEFINE c == Driver(s, Posted(d.loop, e), d.missed \/ Lost(d.loop))
<1>1. /\ d.loop \in Seq(Events) /\ Len(d.loop) <= LoopLen /\ d.missed \in BOOLEAN
      /\ d.sta \in Stations /\ e \in Events
  BY DEF Drivers, Events
<1> DEFINE q == Append(d.loop, e)
<1>2. /\ c.sta = s /\ c.loop \in Seq(Events) /\ Len(c.loop) <= LoopLen /\ c.missed \in BOOLEAN
      /\ \/ c.loop = q /\ (c.missed <=> d.missed)
         \/ c.loop = d.loop /\ c.missed
  BY <1>1, PostedCases DEF Driver, Lost
<1>3. c \in Drivers
  BY <1>2 DEF Drivers, Driver
<1>4. NoCable(d.loop) => NoCable(q)
  BY <1>1, NoCableAppend
<1>5. Attempted(q)
  BY <1>1, AttemptedAppend
<1>6. ASSUME NEW k \in BOOLEAN
      PROVE  /\ Cable(q, k) <=> Cable(d.loop, k)
             /\ Eth(q, k) <=> Eth(d.loop, k)
             /\ e = "StaStart" => (Wifi(q, k) <=> Wifi(d.loop, k))
             /\ e = "StaDisconnected" => ~Wifi(q, k)
  <2>1. Cable(q, k) <=> Cable(d.loop, k)
    BY <1>1, NewestAppend DEF Cable
  <2>2. Eth(q, k) <=> Eth(d.loop, k)
    BY <1>1, NewestAppend DEF Eth
  <2>3. e = "StaStart" => (Wifi(q, k) <=> Wifi(d.loop, k))
    BY <1>1, NewestAppend DEF Wifi
  <2>4. e = "StaDisconnected" => ~Wifi(q, k)
    BY <1>1, NewestAppend DEF Wifi
  <2> QED
    BY <2>1, <2>2, <2>3, <2>4
<1> HIDE DEF c, q
<1>7. ~c.missed => c.loop = q /\ ~d.missed
  BY <1>2
<1>8. Tells(d, c)
  <2>1. NoCable(d.loop) => NoCable(c.loop)
    BY <1>2, <1>4
  <2>2. c.missed \/ Attempted(c.loop)
    BY <1>5, <1>7
  <2>3. ASSUME ~c.missed, NEW k \in BOOLEAN, Wifi(d.loop, k) <=> d.sta = "online"
        PROVE  Wifi(c.loop, k) <=> c.sta = "online"
    BY <1>2, <1>6, <1>7, <2>3
  <2>4. ASSUME ~c.missed, NEW k \in BOOLEAN
        PROVE  /\ Cable(c.loop, k) <=> Cable(d.loop, k)
               /\ Eth(c.loop, k) <=> Eth(d.loop, k)
    BY <1>6, <1>7, <2>4
  <2> QED
    BY <1>3, <1>7, <2>1, <2>2, <2>3, <2>4 DEF Tells
<1> QED
  BY <1>8 DEF c

LEMMA TellsDisconnected ==
    ASSUME NetAssumption, NEW d \in Drivers
    PROVE  /\ Tells(d, Disconnected(d))
           /\ Disconnected(d).sta \notin Active
<1>1. CASE d.sta \in Active
  <2>1. Disconnected(d) = Driver("idle", Posted(d.loop, "StaDisconnected"),
                                 d.missed \/ Lost(d.loop))
    BY <1>1 DEF Disconnected
  <2>2. Tells(d, Driver("idle", Posted(d.loop, "StaDisconnected"), d.missed \/ Lost(d.loop)))
    BY TellsEvent DEF Stations
  <2> QED
    BY <2>1, <2>2 DEF Driver, Active
<1>2. CASE d.sta \notin Active
  BY <1>2, TellsStart DEF Disconnected
<1> QED
  BY <1>1, <1>2

LEMMA TellsRestarted ==
    ASSUME NetAssumption, NEW d \in Drivers
    PROVE  Tells(d, Restarted(d))
<1>1. d.sta \in Stations
  BY DEF Drivers
<1>2. CASE d.sta = "stopped"
  <2>1. Restarted(d) = Driver("connecting", Posted(d.loop, "StaStart"),
                              d.missed \/ Lost(d.loop))
    BY <1>2 DEF Restarted
  <2>2. Tells(d, Driver("connecting", Posted(d.loop, "StaStart"), d.missed \/ Lost(d.loop)))
    BY <1>2, TellsEvent DEF Stations, Active
  <2> QED
    BY <2>1, <2>2
<1>3. CASE d.sta # "stopped"
  <2> DEFINE s == Connected(d.sta)
  <2>1. Restarted(d) = [d EXCEPT !.sta = s]
    BY <1>3 DEF Restarted
  <2>2. s \in Stations \ {"idle"} /\ (s = "online" <=> d.sta = "online")
    BY <1>1 DEF Connected, Stations, Active
  <2> HIDE DEF s
  <2> QED
    BY <2>1, <2>2, TellsNothing
<1> QED
  BY <1>2, <1>3

LEMMA TellsConfigured ==
    ASSUME NetAssumption, NEW d \in Drivers
    PROVE  Tells(d, Configured(d))
<1>1. CASE configs = <<>> \/ isDown
  BY <1>1, TellsStart DEF Configured
<1>2. CASE ~(configs = <<>> \/ isDown)
  <2> DEFINE c == IF isConnect THEN Disconnected(d) ELSE d
  <2>1. Tells(d, c)
    BY TellsDisconnected, TellsStart
  <2>2. Configured(d) = Restarted(c)
    BY <1>2 DEF Configured
  <2> HIDE DEF c
  <2>3. c \in Drivers
    BY <2>1 DEF Tells
  <2> QED
    BY <2>1, <2>2, <2>3, TellsRestarted, TellsTrans
<1> QED
  BY <1>1, <1>2

LEMMA TellsOrdered ==
    ASSUME NetAssumption, NEW d \in Drivers
    PROVE  Tells(d, Ordered(d))
<1>1. CASE orders = <<>>
  BY <1>1, TellsStart DEF Ordered
<1>2. CASE orders # <<>> /\ Head(orders) = "UpWifi"
  BY <1>2, TellsRestarted DEF Ordered
<1>3. CASE orders # <<>> /\ Head(orders) # "UpWifi"
  <2> DEFINE c == Disconnected(d)
  <2>1. Tells(d, c) /\ c.sta \notin Active
    BY TellsDisconnected
  <2>2. Ordered(d) = [c EXCEPT !.sta = "stopped"]
    BY <1>3 DEF Ordered
  <2> HIDE DEF c
  <2>3. c \in Drivers
    BY <2>1 DEF Tells
  <2>4. Tells(c, [c EXCEPT !.sta = "stopped"])
    BY <2>1, <2>3, TellsNothing DEF Stations, Active
  <2> QED
    BY <2>1, <2>2, <2>4, TellsTrans
<1> QED
  BY <1>1, <1>2, <1>3

(* The whole of WifiEventRecvHandler, from the loop without its trigger.   *)
LEMMA TellsHandled ==
    ASSUME NetAssumption, TypeOK, WifiEventRecvHandler
    PROVE  Tells(Driver(sta, Tail(loop), missed), Driver(sta', loop', missed'))
<1> DEFINE c == Driver(sta, Tail(loop), missed)
<1> DEFINE d == Ordered(Configured(c))
<1>1. /\ loop # <<>> /\ loop \in Seq(Events) /\ Len(loop) <= LoopLen + 1
      /\ sta \in Stations /\ missed \in BOOLEAN /\ LoopLen \in Nat
  BY DEF WifiEventRecvHandler, Handles, TypeOK, Stations, NetAssumption
<1>2. Tail(loop) \in Seq(Events) /\ Len(Tail(loop)) <= LoopLen
  BY <1>1
<1>3. c \in Drivers
  BY <1>1, <1>2 DEF Drivers, Driver
<1>4. sta' = d.sta /\ loop' = d.loop /\ missed' = d.missed
  BY DEF WifiEventRecvHandler
<1> HIDE DEF c
<1>5. Tells(c, Configured(c)) /\ Configured(c) \in Drivers
  BY <1>3, TellsConfigured DEF Tells
<1>6. Tells(Configured(c), d)
  BY <1>5, TellsOrdered
<1>7. Tells(c, d) /\ d \in Drivers
  BY <1>5, <1>6, TellsTrans DEF Tells
<1> HIDE DEF d
<1>8. d = Driver(sta', loop', missed')
  BY <1>4, <1>7 DEF Drivers, Driver
<1> QED
  BY <1>7, <1>8 DEF c

---------------------------------------------------------------------------
(* Handlers.                                                               *)

LEMMA HandlesLoop ==
    ASSUME NetAssumption, TypeOK, NEW e, Handles(e)
    PROVE  /\ busy /\ busy' = FALSE /\ loop # <<>> /\ Head(loop) = e
           /\ Tail(loop) \in Seq(Events) /\ Len(Tail(loop)) <= LoopLen
<1>1. loop # <<>> /\ loop \in Seq(Events) /\ Len(loop) <= LoopLen + 1 /\ LoopLen \in Nat
  BY DEF Handles, TypeOK, NetAssumption
<1> QED
  BY <1>1 DEF Handles

(* An order and its trigger are sent, or one of them is lost.              *)
LEMMA OrderCases ==
    ASSUME NetAssumption, TypeOK, NEW e, Handles(e), NEW o \in Orders, Order(o)
    PROVE  /\ loop' \in Seq(Events) /\ Len(loop') <= LoopLen
           /\ orders' \in Seq(Orders) /\ Len(orders') <= QueueLen
           /\ missed' \in BOOLEAN
           /\ \/ loop' = Append(Tail(loop), "Trigger")
              \/ loop' = Tail(loop)
           /\ ~missed' => /\ ~missed
                          /\ loop' = Append(Tail(loop), "Trigger")
                          /\ orders' = Append(orders, o)
<1>1. /\ Tail(loop) \in Seq(Events) /\ Len(Tail(loop)) <= LoopLen
      /\ orders \in Seq(Orders) /\ Len(orders) <= QueueLen /\ missed \in BOOLEAN
      /\ QueueLen \in Nat /\ "Trigger" \in Events
  BY HandlesLoop DEF TypeOK, NetAssumption, Events
<1>2. CASE Len(orders) < QueueLen
  <2>1. /\ orders' = Append(orders, o)
        /\ loop' = Posted(Tail(loop), "Trigger")
        /\ missed' = (missed \/ Lost(Tail(loop)))
    BY <1>2 DEF Order
  <2> DEFINE p == Posted(Tail(loop), "Trigger")
  <2>2. /\ p \in Seq(Events) /\ Len(p) <= LoopLen
        /\ \/ ~Lost(Tail(loop)) /\ p = Append(Tail(loop), "Trigger")
           \/ Lost(Tail(loop)) /\ p = Tail(loop)
    BY <1>1, PostedCases
  <2>3. loop' = p
    BY <2>1
  <2> HIDE DEF p
  <2>4. Append(orders, o) \in Seq(Orders) /\ Len(Append(orders, o)) = Len(orders) + 1
    BY <1>1
  <2>5. Len(orders) + 1 <= QueueLen
    BY <1>1, <1>2
  <2>6. Lost(Tail(loop)) \in BOOLEAN
    BY DEF Lost
  <2> QED
    BY <1>1, <2>1, <2>2, <2>3, <2>4, <2>5, <2>6
<1>3. CASE ~(Len(orders) < QueueLen)
  <2>1. loop' = Tail(loop) /\ missed' = TRUE /\ orders' = orders
    BY <1>3 DEF Order
  <2> QED
    BY <1>1, <2>1
<1> QED
  BY <1>2, <1>3

---------------------------------------------------------------------------
LEMMA TypeInit == NetAssumption /\ Init => TypeOK
<1> SUFFICES ASSUME NetAssumption, Init PROVE TypeOK
  OBVIOUS
<1>1. /\ loop = <<>> /\ orders = <<>> /\ configs = <<>>
      /\ LoopLen \in Nat /\ QueueLen \in Nat
  BY DEF Init, NetAssumption
<1>2. /\ loop \in Seq(Events) /\ orders \in Seq(Orders) /\ configs \in Seq(Configs)
      /\ Len(loop) <= LoopLen + 0 /\ Len(orders) <= QueueLen /\ Len(configs) <= QueueLen
  BY <1>1
<1>3. told \in [{"Eth", "Wifi"} -> BOOLEAN]
  BY DEF Init
<1> QED
  BY <1>2, <1>3 DEF Init, TypeOK

LEMMA TypeStep == NetAssumption /\ TypeOK /\ [Next]_vars => TypeOK'
<1> SUFFICES ASSUME NetAssumption, TypeOK, [Next]_vars PROVE TypeOK'
  OBVIOUS
<1>0. /\ app \in {"start", "poll", "done"}
      /\ loop \in Seq(Events) /\ busy \in BOOLEAN
      /\ orders \in Seq(Orders) /\ Len(orders) <= QueueLen
      /\ configs \in Seq(Configs) /\ Len(configs) <= QueueLen
      /\ posting \in BOOLEAN /\ eth \in {"down", "up", "online"} /\ sta \in Stations
      /\ isDown \in BOOLEAN /\ isConnect \in BOOLEAN
      /\ wifiSok \in BOOLEAN /\ checkStatus \in BOOLEAN
      /\ told \in [{"Eth", "Wifi"} -> BOOLEAN] /\ missed \in BOOLEAN
      /\ LoopLen \in Nat /\ QueueLen \in Nat
  BY DEF TypeOK, Stations, NetAssumption
<1> DEFINE LoopOK == /\ loop \in Seq(Events)
                     /\ Len(loop) <= LoopLen + (IF busy THEN 1 ELSE 0)
                     /\ busy => loop # <<>>
<1>a. LoopOK
  BY DEF TypeOK
<1>b. ASSUME NEW e \in Events, Post(e), busy' = busy PROVE LoopOK' /\ missed' \in BOOLEAN
  BY <1>0, <1>b, PostCases
<1>c. ASSUME NEW e, Handles(e), loop' = Tail(loop) PROVE LoopOK'
  <2>1. /\ Tail(loop) \in Seq(Events) /\ Len(Tail(loop)) <= LoopLen /\ busy' = FALSE
    BY <1>c, HandlesLoop
  <2> QED
    BY <1>0, <1>c, <2>1
<1>d. ASSUME NEW e, Handles(e), NEW o \in Orders, Order(o)
      PROVE  /\ LoopOK' /\ missed' \in BOOLEAN
             /\ orders' \in Seq(Orders) /\ Len(orders') <= QueueLen
  <2>1. /\ loop' \in Seq(Events) /\ Len(loop') <= LoopLen /\ busy' = FALSE
        /\ orders' \in Seq(Orders) /\ Len(orders') <= QueueLen
        /\ missed' \in BOOLEAN
    BY <1>d, HandlesLoop, OrderCases
  <2> QED
    BY <1>0, <2>1
<1>e. /\ "CableUp" \in Events /\ "CableDown" \in Events /\ "EthGotIp" \in Events
      /\ "StaStart" \in Events /\ "StaDisconnected" \in Events
      /\ "StaGotIp" \in Events /\ "Trigger" \in Events
      /\ "UpWifi" \in Orders /\ "DownWifi" \in Orders
  BY DEF Events, Orders
<1>f. TypeOK' <=> /\ LoopOK' /\ app' \in {"start", "poll", "done"} /\ busy' \in BOOLEAN
                  /\ orders' \in Seq(Orders) /\ Len(orders') <= QueueLen
                  /\ configs' \in Seq(Configs) /\ Len(configs') <= QueueLen
                  /\ posting' \in BOOLEAN /\ eth' \in {"down", "up", "online"}
                  /\ sta' \in Stations
                  /\ isDown' \in BOOLEAN /\ isConnect' \in BOOLEAN
                  /\ wifiSok' \in BOOLEAN /\ checkStatus' \in BOOLEAN
                  /\ told' \in [{"Eth", "Wifi"} -> BOOLEAN] /\ missed' \in BOOLEAN
  BY DEF TypeOK, Stations
<1>g. \A b \in BOOLEAN : /\ [told EXCEPT !["Eth"] = b] \in [{"Eth", "Wifi"} -> BOOLEAN]
                         /\ [told EXCEPT !["Wifi"] = b] \in [{"Eth", "Wifi"} -> BOOLEAN]
  BY <1>0
<1>h. Connected(sta) \in Stations /\ Started(sta) \in Stations
  BY <1>0 DEF Connected, Started, Stations, Active
<1>i. UNCHANGED <<loop, busy>> => LoopOK'
  BY <1>a
<1> HIDE DEF LoopOK
<1>1. CASE StaProgress
  <2>1. LoopOK' /\ missed' \in BOOLEAN /\ sta' \in Stations
    BY <1>0, <1>1, <1>b, <1>e, <1>i DEF StaProgress, Stations, Active
  <2> QED
    BY <1>0, <1>1, <1>f, <2>1 DEF StaProgress, queues, wifi
<1>2. CASE EthProgress
  <2>1. LoopOK' /\ missed' \in BOOLEAN /\ eth' \in {"down", "up", "online"}
    BY <1>2, <1>b, <1>e DEF EthProgress
  <2> QED
    BY <1>0, <1>2, <1>f, <2>1 DEF EthProgress, queues, wifi
<1>3. CASE WifiInit
  <2>1. LoopOK' /\ missed' \in BOOLEAN
    BY <1>3, <1>b, <1>e DEF WifiInit
  <2> QED
    BY <1>0, <1>3, <1>f, <1>h, <2>1 DEF WifiInit, queues, wifi
<1>4. CASE Poll
  BY <1>0, <1>4, <1>f, <1>i DEF Poll, queues, wifi
<1>5. ASSUME NEW m \in Configs, MqttSends(m) PROVE TypeOK'
  <2>1. configs' = Append(configs, m) /\ Len(configs) < QueueLen
    BY <1>5 DEF MqttSends
  <2>2. Append(configs, m) \in Seq(Configs) /\ Len(Append(configs, m)) = Len(configs) + 1
    BY <1>0
  <2>3. configs' \in Seq(Configs) /\ Len(configs') <= QueueLen
    BY <1>0, <2>1, <2>2
  <2> QED
    BY <1>0, <1>5, <1>f, <1>i, <2>3 DEF MqttSends, wifi
<1>6. CASE MqttTriggers
  <2>1. LoopOK' /\ missed' \in BOOLEAN
    <3>1. CASE app = "start"
      BY <1>6, <1>i, <3>1 DEF MqttTriggers
    <3>2. CASE app # "start"
      BY <1>6, <1>b, <1>e, <3>2 DEF MqttTriggers
    <3> QED
      BY <3>1, <3>2
  <2> QED
    BY <1>0, <1>6, <1>f, <2>1 DEF MqttTriggers, wifi
<1>7. CASE Take
  <2>1. busy' = TRUE /\ ~busy /\ loop' = loop /\ loop # <<>>
    BY <1>7 DEF Take
  <2>2. Len(loop) <= LoopLen /\ Len(loop) \in Nat
    BY <1>0, <1>a, <2>1 DEF LoopOK
  <2>3. Len(loop) <= LoopLen + 1
    BY <1>0, <2>2
  <2>4. LoopOK'
    BY <1>0, <2>1, <2>3 DEF LoopOK
  <2> QED
    BY <1>0, <1>7, <1>f, <2>4 DEF Take, queues, wifi
<1>8. CASE EthConnected
  <2>1. /\ LoopOK' /\ missed' \in BOOLEAN
        /\ orders' \in Seq(Orders) /\ Len(orders') <= QueueLen
    BY <1>8, <1>d, <1>e DEF EthConnected
  <2> QED
    BY <1>0, <1>8, <1>f, <2>1 DEF EthConnected, Handles, wifi
<1>9. CASE EthDisconnected
  <2>1. /\ LoopOK' /\ missed' \in BOOLEAN
        /\ orders' \in Seq(Orders) /\ Len(orders') <= QueueLen
    BY <1>9, <1>d, <1>e DEF EthDisconnected
  <2> QED
    BY <1>0, <1>9, <1>f, <1>g, <2>1 DEF EthDisconnected, Handles, wifi
<1>10. CASE EthGotIp
  BY <1>0, <1>10, <1>c, <1>f, <1>g DEF EthGotIp, Handles, queues, wifi
<1>11. CASE StaStart
  BY <1>0, <1>11, <1>c, <1>f, <1>h DEF StaStart, Handles, queues
<1>12. CASE StaDisconnected
  BY <1>0, <1>12, <1>c, <1>f, <1>g, <1>h DEF StaDisconnected, Handles, queues
<1>13. CASE StaGotIp
  BY <1>0, <1>13, <1>c, <1>f, <1>g DEF StaGotIp, Handles, queues
<1>14. CASE WifiEventRecvHandler
  <2>1. Driver(sta', loop', missed') \in Drivers
    BY <1>14, TellsHandled DEF Tells
  <2>2. sta' \in Stations /\ loop' \in Seq(Events) /\ Len(loop') <= LoopLen /\ missed' \in BOOLEAN
    BY <2>1 DEF Drivers, Driver
  <2>3. busy' = FALSE
    BY <1>14 DEF WifiEventRecvHandler, Handles
  <2>4. LoopOK'
    BY <1>0, <2>2, <2>3 DEF LoopOK
  <2>5. configs' \in Seq(Configs) /\ Len(configs') <= QueueLen
    <3>1. configs' = Popped(configs)
      BY <1>14 DEF WifiEventRecvHandler
    <3> QED
      BY <1>0, <3>1 DEF Popped
  <2>6. orders' \in Seq(Orders) /\ Len(orders') <= QueueLen
    <3>1. orders' = Popped(orders)
      BY <1>14 DEF WifiEventRecvHandler
    <3> QED
      BY <1>0, <3>1 DEF Popped
  <2>7. isDown' \in BOOLEAN /\ checkStatus' \in BOOLEAN
    BY <1>0, <1>14 DEF WifiEventRecvHandler
  <2> QED
    BY <1>0, <1>14, <1>f, <2>2, <2>3, <2>4, <2>5, <2>6, <2>7 DEF WifiEventRecvHandler
<1>15. CASE UNCHANGED vars
  BY <1>0, <1>15, <1>f, <1>i DEF vars
<1> QED
  BY <1>1, <1>2, <1>3, <1>4, <1>5, <1>6, <1>7, <1>8, <1>9, <1>10, <1>11, <1>12,
     <1>13, <1>14, <1>15 DEF Next, EventLoop

(* The variables keep their types, and the loop and the queues their       *)
(* capacity: the room of an event is free while the event is handled, and  *)
(* what is posted meanwhile, by the handler or by others, never exceeds it *)
(* (esp_event_post and xQueueSend in main/wifi.c, eth.c and                *)
(* hello_world_main.c).                                                    *)
THEOREM TypeCorrect == Spec => []TypeOK
<1>1. Init => TypeOK
  BY TypeInit, NetAssumption
<1>2. TypeOK /\ [Next]_vars => TypeOK'
  BY TypeStep, NetAssumption
<1> QED
  BY <1>1, <1>2, PTL DEF Spec

---------------------------------------------------------------------------
(* Before the Ethernet driver starts there is no order for WiFi.           *)
Booting == app # "done" => ~isDown /\ orders = <<>> /\ NoCable(loop)

LEMMA PostNoCable ==
    ASSUME NetAssumption, TypeOK, NEW e \in Events, Post(e), NoCable(loop),
           e \notin {"CableUp", "CableDown"}
    PROVE  NoCable(loop')
<1>1. loop' = Append(loop, e) \/ loop' = loop
  BY PostCases
<1>2. loop \in Seq(Events)
  BY DEF TypeOK
<1> QED
  BY <1>1, <1>2, NoCableAppend

LEMMA HandlesNoCable ==
    ASSUME NetAssumption, TypeOK, NEW e, Handles(e), NoCable(loop)
    PROVE  NoCable(Tail(loop)) /\ e \notin {"CableUp", "CableDown"}
<1>1. loop # <<>> /\ loop \in Seq(Events) /\ Head(loop) = e
  BY HandlesLoop DEF TypeOK
<1> QED
  BY <1>1, NoCableTail

LEMMA BootingStep ==
    NetAssumption /\ TypeOK /\ Booting /\ [Next]_vars => Booting'
<1> SUFFICES ASSUME NetAssumption, TypeOK, Booting, [Next]_vars, app' # "done"
             PROVE  ~isDown' /\ orders' = <<>> /\ NoCable(loop')
  BY DEF Booting
<1>a. /\ "EthGotIp" \in Events /\ "StaStart" \in Events /\ "StaDisconnected" \in Events
      /\ "StaGotIp" \in Events /\ "Trigger" \in Events
  BY DEF Events
<1>b. app # "done"
  BY DEF Next, EventLoop, StaProgress, EthProgress, WifiInit, Poll, MqttSends, MqttTriggers,
         Take, EthConnected, EthDisconnected, EthGotIp, StaStart, StaDisconnected,
         StaGotIp, WifiEventRecvHandler, vars
<1>c. ~isDown /\ orders = <<>> /\ NoCable(loop)
  BY <1>b DEF Booting
<1>1. CASE StaProgress
  BY <1>a, <1>c, <1>1, PostNoCable DEF StaProgress, queues, wifi
<1>2. CASE EthProgress
  BY <1>b, <1>2 DEF EthProgress
<1>3. CASE WifiInit
  BY <1>a, <1>c, <1>3, PostNoCable DEF WifiInit, queues, wifi
<1>4. CASE Poll
  BY <1>c, <1>4 DEF Poll, queues, wifi
<1>5. ASSUME NEW m \in Configs, MqttSends(m) PROVE ~isDown' /\ orders' = <<>> /\ NoCable(loop')
  BY <1>c, <1>5 DEF MqttSends, wifi
<1>6. CASE MqttTriggers
  <2>1. CASE app = "start"
    BY <1>c, <1>6, <2>1 DEF MqttTriggers, wifi
  <2>2. CASE app # "start"
    BY <1>a, <1>c, <1>6, <2>2, PostNoCable DEF MqttTriggers, wifi
  <2> QED
    BY <2>1, <2>2
<1>7. CASE Take
  BY <1>c, <1>7 DEF Take, queues, wifi
<1>8. CASE EthConnected
  BY <1>c, <1>8, HandlesNoCable DEF EthConnected
<1>9. CASE EthDisconnected
  BY <1>c, <1>9, HandlesNoCable DEF EthDisconnected
<1>10. CASE EthGotIp
  BY <1>c, <1>10, HandlesNoCable DEF EthGotIp, queues, wifi
<1>11. CASE StaStart
  BY <1>c, <1>11, HandlesNoCable DEF StaStart, queues
<1>12. CASE StaDisconnected
  BY <1>c, <1>12, HandlesNoCable DEF StaDisconnected, queues
<1>13. CASE StaGotIp
  BY <1>c, <1>13, HandlesNoCable DEF StaGotIp, queues
<1>14. CASE WifiEventRecvHandler
  <2>1. Tells(Driver(sta, Tail(loop), missed), Driver(sta', loop', missed'))
    BY <1>14, TellsHandled
  <2>2. NoCable(Tail(loop))
    BY <1>c, <1>14, HandlesNoCable DEF WifiEventRecvHandler
  <2>3. NoCable(loop')
    BY <2>1, <2>2 DEF Tells, Driver
  <2>4. ~isDown' /\ orders' = <<>>
    BY <1>c, <1>14 DEF WifiEventRecvHandler, Popped
  <2> QED
    BY <2>3, <2>4
<1>15. CASE UNCHANGED vars
  BY <1>c, <1>15 DEF vars
<1> QED
  BY <1>1, <1>2, <1>3, <1>4, <1>5, <1>6, <1>7, <1>8, <1>9, <1>10, <1>11, <1>12,
     <1>13, <1>14, <1>15 DEF Next, EventLoop

LEMMA StaysDownStep ==
    NetAssumption /\ TypeOK /\ Booting /\ StaysDown /\ [Next]_vars => StaysDown'
<1> SUFFICES ASSUME NetAssumption, TypeOK, Booting, StaysDown, [Next]_vars, isDown'
             PROVE  sta' = "stopped"
  BY DEF StaysDown
<1>a. isDown => sta = "stopped"
  BY DEF StaysDown
<1>b. Connected("stopped") = "stopped"
  BY DEF Connected
<1>1. CASE StaProgress
  BY <1>a, <1>1 DEF StaProgress, wifi, Active
<1>2. CASE EthProgress
  BY <1>a, <1>2 DEF EthProgress, wifi
<1>3. CASE WifiInit
  BY <1>3 DEF WifiInit, wifi, Booting
<1>4. CASE Poll
  BY <1>a, <1>4 DEF Poll, wifi
<1>5. ASSUME NEW m \in Configs, MqttSends(m) PROVE sta' = "stopped"
  BY <1>a, <1>5 DEF MqttSends, wifi
<1>6. CASE MqttTriggers
  BY <1>a, <1>6 DEF MqttTriggers, wifi
<1>7. CASE Take
  BY <1>a, <1>7 DEF Take, wifi
<1>8. CASE EthConnected
  BY <1>a, <1>8 DEF EthConnected, wifi
<1>9. CASE EthDisconnected
  BY <1>a, <1>9 DEF EthDisconnected, wifi
<1>10. CASE EthGotIp
  BY <1>a, <1>10 DEF EthGotIp, wifi
<1>11. CASE StaStart
  BY <1>a, <1>b, <1>11 DEF StaStart
<1>12. CASE StaDisconnected
  BY <1>a, <1>b, <1>12 DEF StaDisconnected
<1>13. CASE StaGotIp
  BY <1>a, <1>13 DEF StaGotIp
<1>14. CASE WifiEventRecvHandler
  <2> DEFINE c == Driver(sta, Tail(loop), missed)
  <2>1. sta' = Ordered(Configured(c)).sta
    BY <1>14 DEF WifiEventRecvHandler
  <2>2. CASE orders = <<>>
    <3>1. isDown
      BY <1>14, <2>2 DEF WifiEventRecvHandler
    <3>2. Ordered(Configured(c)) = c
      BY <2>2, <3>1 DEF Ordered, Configured
    <3> QED
      BY <1>a, <2>1, <3>1, <3>2 DEF Driver
  <2>3. CASE orders # <<>>
    <3>1. Head(orders) = "DownWifi"
      BY <1>14, <2>3 DEF WifiEventRecvHandler
    <3>2. Ordered(Configured(c)) = [Disconnected(Configured(c)) EXCEPT !.sta = "stopped"]
      BY <2>3, <3>1 DEF Ordered
    <3>3. /\ loop # <<>> /\ Tail(loop) \in Seq(Events) /\ Len(Tail(loop)) <= LoopLen
          /\ sta \in Stations /\ missed \in BOOLEAN
      BY <1>14, HandlesLoop DEF WifiEventRecvHandler, TypeOK, Stations
    <3>4. c \in Drivers
      BY <3>3 DEF Drivers, Driver
    <3>5. Disconnected(Configured(c)) \in Drivers
      BY <3>4, TellsConfigured, TellsDisconnected DEF Tells
    <3> HIDE DEF c
    <3> QED
      BY <2>1, <3>2, <3>5 DEF Drivers
  <2> QED
    BY <2>2, <2>3
<1>15. CASE UNCHANGED vars
  BY <1>a, <1>15 DEF vars
<1> QED
  BY <1>1, <1>2, <1>3, <1>4, <1>5, <1>6, <1>7, <1>8, <1>9, <1>10, <1>11, <1>12,
     <1>13, <1>14, <1>15 DEF Next, EventLoop

(* While WiFi is ordered down its station is stopped, in spite of late     *)
(* events of the driver, whose handlers connect it, and of configurations, *)
(* which start it (isDown in main/wifi.c); this needs that no order is     *)
(* about before WifiInit has started the station.                          *)
THEOREM StaysDownHolds == Spec => []StaysDown
<1>1. Init => TypeOK /\ Booting /\ StaysDown
  <2>1. Init => NoCable(loop)
    BY DEF Init, NoCable
  <2> QED
    BY <2>1, TypeInit, NetAssumption DEF Init, Booting, StaysDown
<1>2. TypeOK /\ Booting /\ StaysDown /\ [Next]_vars => (TypeOK /\ Booting /\ StaysDown)'
  BY TypeStep, BootingStep, StaysDownStep, NetAssumption
<1> QED
  BY <1>1, <1>2, PTL DEF Spec

---------------------------------------------------------------------------
(* app_main that waits in WifiInit for a start that has come and gone.     *)

NoStart(l) == \A i \in 1..Len(l) : l[i] # "StaStart"

StartMissed == app = "poll" /\ ~wifiSok /\ NoStart(loop)

(* No order can stop the station yet, so nothing starts it once more.      *)
Running == app = "poll" => sta # "stopped"

LEMMA NoStartAppend ==
    ASSUME NEW S, NEW l \in Seq(S), NEW e \in S, NoStart(l), e # "StaStart"
    PROVE  NoStart(Append(l, e))
<1>1. /\ Len(l) \in Nat /\ Len(Append(l, e)) = Len(l) + 1
      /\ \A i \in 1..(Len(l) + 1) : i \in 1..Len(l) \/ i = Len(l) + 1
      /\ \A i \in 1..Len(l) : Append(l, e)[i] = l[i]
      /\ Append(l, e)[Len(l) + 1] = e
  OBVIOUS
<1> QED
  BY <1>1 DEF NoStart

LEMMA NoStartTail ==
    ASSUME NEW S, NEW l \in Seq(S), l # <<>>, NoStart(l)
    PROVE  NoStart(Tail(l)) /\ Head(l) # "StaStart"
<1>1. /\ Len(l) \in Nat /\ Len(Tail(l)) = Len(l) - 1 /\ l[1] = Head(l) /\ 1 \in 1..Len(l)
      /\ \A j \in 1..Len(Tail(l)) : Tail(l)[j] = l[j + 1] /\ j + 1 \in 1..Len(l)
  OBVIOUS
<1> QED
  BY <1>1 DEF NoStart

(* What the driver is told before the first order: it is restarted only    *)
(* while it runs, which announces no start.                                *)
LEMMA ConfiguredRunning ==
    ASSUME NetAssumption, NEW d \in Drivers, d.sta # "stopped"
    PROVE  /\ Configured(d) \in Drivers /\ Configured(d).sta # "stopped"
           /\ NoStart(d.loop) => NoStart(Configured(d).loop)
<1>1. Configured(d) \in Drivers
  BY TellsConfigured DEF Tells
<1>2. CASE configs = <<>> \/ isDown
  BY <1>2 DEF Configured
<1>3. CASE ~(configs = <<>> \/ isDown)
  <2> DEFINE c == IF isConnect THEN Disconnected(d) ELSE d
  <2>1. /\ c \in Drivers /\ c.sta # "stopped"
        /\ NoStart(d.loop) => NoStart(c.loop)
    <3>1. CASE isConnect /\ d.sta \in Active
      <4>1. c = Driver("idle", Posted(d.loop, "StaDisconnected"),
                       d.missed \/ Lost(d.loop))
        BY <3>1 DEF Disconnected
      <4>2. c.sta = "idle" /\ c.loop = Posted(d.loop, "StaDisconnected")
        BY <4>1 DEF Driver
      <4>3. d.loop \in Seq(Events) /\ "StaDisconnected" \in Events
        BY DEF Drivers, Events
      <4>4. c.loop = Append(d.loop, "StaDisconnected") \/ c.loop = d.loop
        BY <4>2, <4>3, PostedCases
      <4>5. NoStart(d.loop) => NoStart(c.loop)
        BY <4>3, <4>4, NoStartAppend
      <4>6. c \in Drivers
        BY <3>1, TellsDisconnected DEF Tells
      <4> QED
        BY <4>2, <4>5, <4>6
    <3>2. CASE ~(isConnect /\ d.sta \in Active)
      <4>1. c = d
        BY <3>2 DEF Disconnected
      <4> QED
        BY <4>1
    <3> QED
      BY <3>1, <3>2
  <2>2. Configured(d) = Restarted(c)
    BY <1>3 DEF Configured
  <2> HIDE DEF c
  <2>3. Restarted(c) = [c EXCEPT !.sta = Connected(c.sta)]
    BY <2>1 DEF Restarted
  <2>4. /\ Restarted(c).loop = c.loop
        /\ Restarted(c).sta = Connected(c.sta)
    BY <2>1, <2>3 DEF Drivers
  <2>5. Connected(c.sta) # "stopped"
    BY <2>1 DEF Connected
  <2> QED
    BY <1>1, <2>1, <2>2, <2>4, <2>5
<1> QED
  BY <1>2, <1>3, <1>1

LEMMA HandledRunning ==
    ASSUME NetAssumption, TypeOK, WifiEventRecvHandler, orders = <<>>, sta # "stopped"
    PROVE  /\ sta' # "stopped"
           /\ NoStart(loop) => NoStart(loop')
<1> DEFINE c == Driver(sta, Tail(loop), missed)
<1>1. /\ loop # <<>> /\ Tail(loop) \in Seq(Events) /\ Len(Tail(loop)) <= LoopLen
      /\ sta \in Stations /\ missed \in BOOLEAN /\ loop \in Seq(Events)
  BY HandlesLoop DEF WifiEventRecvHandler, TypeOK, Stations
<1>2. c \in Drivers /\ c.sta # "stopped" /\ c.loop = Tail(loop)
  BY <1>1 DEF Drivers, Driver
<1>3. sta' = Ordered(Configured(c)).sta /\ loop' = Ordered(Configured(c)).loop
  BY DEF WifiEventRecvHandler
<1>4. Ordered(Configured(c)) = Configured(c)
  BY DEF Ordered
<1> HIDE DEF c
<1>5. sta' # "stopped" /\ (NoStart(Tail(loop)) => NoStart(loop'))
  BY <1>2, <1>3, <1>4, ConfiguredRunning
<1> QED
  BY <1>1, <1>5, NoStartTail

LEMMA RunningStep ==
    NetAssumption /\ TypeOK /\ Booting /\ Running /\ [Next]_vars => Running'
<1> SUFFICES ASSUME NetAssumption, TypeOK, Booting, Running, [Next]_vars, app' = "poll"
             PROVE  sta' # "stopped"
  BY DEF Running
<1>1. CASE WifiInit
  <2>1. sta' = Started(sta) /\ "idle" # "stopped"
    BY <1>1 DEF WifiInit
  <2> QED
    BY <2>1 DEF Started
<1>2. ASSUME app = "poll", sta # "stopped"
      PROVE  sta' # "stopped"
  <2>1. CASE WifiEventRecvHandler
    BY <1>2, <2>1, HandledRunning DEF Booting
  <2>2. CASE StaProgress
    BY <1>2, <2>2 DEF StaProgress
  <2>3. CASE StaStart \/ StaDisconnected
    BY <1>2, <2>3 DEF StaStart, StaDisconnected, Connected
  <2>4. CASE ~(WifiEventRecvHandler \/ StaProgress \/ StaStart \/ StaDisconnected \/ WifiInit)
    BY <1>2, <2>4 DEF Next, EventLoop, EthProgress, Poll, MqttSends, MqttTriggers, Take,
                      EthConnected, EthDisconnected, EthGotIp, StaGotIp, vars
  <2>5. ~WifiInit
    BY <1>2 DEF WifiInit
  <2> QED
    BY <2>1, <2>2, <2>3, <2>4, <2>5
<1>3. app' = app => sta # "stopped"
  BY DEF Running
<1>4. WifiInit \/ app' = app \/ Poll
  BY DEF Next, EventLoop, StaProgress, EthProgress, MqttSends, MqttTriggers, Take, vars,
         EthConnected, EthDisconnected, EthGotIp, StaStart, StaDisconnected, StaGotIp,
         WifiEventRecvHandler
<1>5. ~Poll
  BY DEF Poll
<1> QED
  BY <1>1, <1>2, <1>3, <1>4, <1>5

LEMMA PostNoStart ==
    ASSUME NetAssumption, TypeOK, NEW e \in Events, Post(e), NoStart(loop), e # "StaStart"
    PROVE  NoStart(loop')
<1>1. loop' = Append(loop, e) \/ loop' = loop
  BY PostCases
<1>2. loop \in Seq(Events)
  BY DEF TypeOK
<1> QED
  BY <1>1, <1>2, NoStartAppend

LEMMA StartMissedStep ==
    NetAssumption /\ TypeOK /\ Booting /\ Running /\ StartMissed /\ [Next]_vars
        => StartMissed'
<1> SUFFICES ASSUME NetAssumption, TypeOK, Booting, Running, StartMissed, [Next]_vars
             PROVE  app' = "poll" /\ ~wifiSok' /\ NoStart(loop')
  BY DEF StartMissed
<1>a. /\ "EthGotIp" \in Events /\ "StaDisconnected" \in Events
      /\ "StaGotIp" \in Events /\ "Trigger" \in Events
  BY DEF Events
<1>b. app = "poll" /\ ~wifiSok /\ NoStart(loop) /\ orders = <<>> /\ NoCable(loop)
  BY DEF StartMissed, Booting
<1>c. ASSUME NEW e, Handles(e)
      PROVE  e \notin {"StaStart", "CableUp", "CableDown"} /\ NoStart(Tail(loop))
  <2>1. loop # <<>> /\ loop \in Seq(Events) /\ Head(loop) = e
    BY <1>c, HandlesLoop DEF TypeOK
  <2>2. NoStart(Tail(loop)) /\ e # "StaStart"
    BY <1>b, <2>1, NoStartTail
  <2>3. e \notin {"CableUp", "CableDown"}
    BY <1>b, <2>1, NoCableTail
  <2> QED
    BY <2>2, <2>3
<1>1. CASE StaProgress
  <2>1. app' = app /\ wifiSok' = wifiSok
    BY <1>1 DEF StaProgress, wifi
  <2>2. loop' = loop \/ Post("StaGotIp") \/ Post("StaDisconnected")
    BY <1>1 DEF StaProgress
  <2>3. NoStart(loop')
    BY <1>a, <1>b, <2>2, PostNoStart
  <2> QED
    BY <1>b, <2>1, <2>3
<1>2. CASE EthProgress \/ WifiInit \/ Poll
  BY <1>b, <1>2 DEF EthProgress, WifiInit, Poll
<1>3. CASE MqttTriggers
  <2>1. app' = app /\ wifiSok' = wifiSok /\ Post("Trigger")
    BY <1>b, <1>3 DEF MqttTriggers, wifi
  <2>2. NoStart(loop')
    BY <1>a, <1>b, <2>1, PostNoStart
  <2> QED
    BY <1>b, <2>1, <2>2
<1>4. CASE EthConnected \/ EthDisconnected \/ StaStart
  BY <1>c, <1>4 DEF EthConnected, EthDisconnected, StaStart
<1>5. CASE EthGotIp
  BY <1>b, <1>c, <1>5 DEF EthGotIp, wifi
<1>6. CASE StaDisconnected
  BY <1>b, <1>c, <1>6 DEF StaDisconnected
<1>7. CASE StaGotIp
  BY <1>b, <1>c, <1>7 DEF StaGotIp
<1>8. CASE WifiEventRecvHandler
  <2>1. app' = app /\ wifiSok' = wifiSok
    BY <1>8 DEF WifiEventRecvHandler
  <2>2. NoStart(loop')
    BY <1>b, <1>8, HandledRunning DEF Running
  <2> QED
    BY <1>b, <2>1, <2>2
<1>9. CASE Take \/ (\E m \in Configs : MqttSends(m)) \/ UNCHANGED vars
  <2>1. app' = app /\ wifiSok' = wifiSok /\ loop' = loop
    BY <1>9 DEF Take, MqttSends, vars, wifi
  <2> QED
    BY <1>b, <2>1
<1> QED
  BY <1>1, <1>2, <1>3, <1>4, <1>5, <1>6, <1>7, <1>8, <1>9 DEF Next, EventLoop

(* WifiInit (wifi.c 427) waits for a flag that StaDisconnected (wifi.c 281)*)
(* clears: once the start of the station has been handled and forgotten    *)
(* before app_main looked, no event, no configuration and no progress of   *)
(* the driver ever ends the wait, for loops of every length.  The violated *)
(* WifiInitReturns shows that it comes to this.                            *)
THEOREM StartMissedForEver == Spec => [](StartMissed => []StartMissed)
<1>1. Init => TypeOK /\ Booting /\ Running
  <2>1. Init => NoCable(loop)
    BY DEF Init, NoCable
  <2> QED
    BY <2>1, TypeInit, NetAssumption DEF Init, Booting, Running
<1>2. TypeOK /\ Booting /\ Running /\ [Next]_vars => (TypeOK /\ Booting /\ Running)'
  BY TypeStep, BootingStep, RunningStep, NetAssumption
<1>3. TypeOK /\ Booting /\ Running /\ StartMissed /\ [Next]_vars => StartMissed'
  BY StartMissedStep, NetAssumption
<1> QED
  BY <1>1, <1>2, <1>3, PTL DEF Spec

---------------------------------------------------------------------------
(* WiFi follows the cable.                                                 *)

Wanted == Newest(orders, "DownWifi", "UpWifi", isDown)

(* Taking an event off that decides something leaves what it decided.      *)
LEMMA CableTaken ==
    ASSUME NetAssumption, TypeOK, NEW e, Handles(e), NEW k
    PROVE  /\ e = "CableUp" => (Cable(Tail(loop), TRUE) <=> Cable(loop, k))
           /\ e = "CableDown" => (Cable(Tail(loop), FALSE) <=> Cable(loop, k))
           /\ e \notin {"CableUp", "CableDown"} => (Cable(Tail(loop), k) <=> Cable(loop, k))
<1>1. loop # <<>> /\ loop \in Seq(Events) /\ Head(loop) = e
  BY HandlesLoop DEF TypeOK
<1> QED
  BY <1>1, NewestTail DEF Cable

LEMMA FollowsCableStep ==
    NetAssumption /\ TypeOK /\ FollowsCable /\ [Next]_vars => FollowsCable'
<1> SUFFICES ASSUME NetAssumption, TypeOK, FollowsCable, [Next]_vars, ~missed'
             PROVE  Cable(loop', Wanted') <=> eth' # "down"
  BY DEF FollowsCable, Cable, Wanted
<1>a. /\ "EthGotIp" \in Events /\ "StaStart" \in Events /\ "StaDisconnected" \in Events
      /\ "StaGotIp" \in Events /\ "Trigger" \in Events
      /\ "CableUp" \in Events /\ "CableDown" \in Events
      /\ "UpWifi" \in Orders /\ "DownWifi" \in Orders
  BY DEF Events, Orders
<1>b. ~missed => (Cable(loop, Wanted) <=> eth # "down")
  BY DEF FollowsCable, Cable, Wanted
<1>c. loop \in Seq(Events) /\ orders \in Seq(Orders)
  BY DEF TypeOK
<1>d. UNCHANGED <<orders, isDown>> => Wanted' = Wanted
  BY DEF Wanted
<1>e. Wanted \in BOOLEAN /\ Wanted' \in BOOLEAN
  BY DEF Wanted, Newest
<1>f. ASSUME NEW e \in Events, Post(e), e \notin {"CableUp", "CableDown"}
      PROVE  ~missed /\ \A k : (Cable(loop', k) <=> Cable(loop, k))
  <2>1. ~missed /\ loop' = Append(loop, e)
    BY <1>f, PostCases
  <2>2. ASSUME NEW k PROVE Cable(Append(loop, e), k) <=> Cable(loop, k)
    BY <1>c, <1>f, NewestAppend DEF Cable
  <2> QED
    BY <2>1, <2>2
<1>g. ASSUME NEW e, Handles(e), e \notin {"CableUp", "CableDown"}, loop' = Tail(loop)
      PROVE  \A k : (Cable(loop', k) <=> Cable(loop, k))
  BY <1>g, CableTaken
<1>h. ASSUME NEW q \in Seq(Events)
      PROVE  \A k : (Cable(Append(q, "Trigger"), k) <=> Cable(q, k))
  BY <1>a, NewestAppend DEF Cable
<1> HIDE DEF Wanted
<1>1. CASE StaProgress
  <2>1. orders' = orders /\ isDown' = isDown /\ eth' = eth
    BY <1>1 DEF StaProgress, queues, wifi
  <2>2. ~missed /\ (Cable(loop', Wanted) <=> Cable(loop, Wanted))
    <3>1. CASE sta = "connecting" /\ UNCHANGED <<loop, missed>>
      BY <3>1
    <3>2. CASE Post("StaGotIp")
      BY <1>a, <1>f, <3>2
    <3>3. CASE Post("StaDisconnected")
      BY <1>a, <1>f, <3>3
    <3> QED
      BY <1>1, <3>1, <3>2, <3>3 DEF StaProgress
  <2> QED
    BY <1>b, <1>d, <2>1, <2>2
<1>2. CASE EthProgress
  <2>1. orders' = orders /\ isDown' = isDown
    BY <1>2 DEF EthProgress, queues, wifi
  <2>2. CASE eth = "down" /\ eth' = "up" /\ Post("CableUp")
    <3>1. loop' = Append(loop, "CableUp")
      BY <1>a, <2>2, PostCases
    <3>2. Cable(loop', Wanted)
      BY <1>a, <1>c, <3>1, NewestAppend DEF Cable
    <3> QED
      BY <1>d, <2>1, <2>2, <3>2
  <2>3. CASE eth = "up" /\ eth' = "online" /\ Post("EthGotIp")
    BY <1>a, <1>b, <1>d, <1>f, <2>1, <2>3
  <2>4. CASE eth # "down" /\ eth' = "down" /\ Post("CableDown")
    <3>1. loop' = Append(loop, "CableDown")
      BY <1>a, <2>4, PostCases
    <3>2. ~Cable(loop', Wanted)
      BY <1>a, <1>c, <3>1, NewestAppend DEF Cable
    <3> QED
      BY <1>d, <2>1, <2>4, <3>2
  <2> QED
    BY <1>2, <2>2, <2>3, <2>4 DEF EthProgress
<1>3. CASE WifiInit
  <2>1. orders' = orders /\ isDown' = isDown /\ eth' = eth /\ Post("StaStart")
    BY <1>3 DEF WifiInit, queues, wifi
  <2> QED
    BY <1>a, <1>b, <1>d, <1>f, <2>1
<1>4. CASE Poll
  BY <1>b, <1>d, <1>4 DEF Poll, queues, wifi
<1>5. ASSUME NEW m \in Configs, MqttSends(m)
      PROVE  Cable(loop', Wanted') <=> eth' # "down"
  BY <1>b, <1>d, <1>5 DEF MqttSends, wifi
<1>6. CASE MqttTriggers
  <2>1. orders' = orders /\ isDown' = isDown /\ eth' = eth
    BY <1>6 DEF MqttTriggers, wifi
  <2>2. Post("Trigger")
    BY <1>6 DEF MqttTriggers
  <2> QED
    BY <1>a, <1>b, <1>d, <1>f, <2>1, <2>2
<1>7. CASE Take
  BY <1>b, <1>d, <1>7 DEF Take, queues, wifi
<1>8. CASE EthConnected
  <2>1. Handles("CableUp") /\ Order("DownWifi") /\ isDown' = isDown /\ eth' = eth
    BY <1>8 DEF EthConnected, wifi
  <2>2. /\ ~missed /\ loop' = Append(Tail(loop), "Trigger")
        /\ orders' = Append(orders, "DownWifi") /\ Tail(loop) \in Seq(Events)
    BY <1>a, <2>1, OrderCases, HandlesLoop
  <2>3. Wanted'
    BY <1>a, <1>c, <2>2, NewestAppend DEF Wanted
  <2>4. Cable(loop', Wanted') <=> Cable(Tail(loop), Wanted')
    BY <1>h, <2>2
  <2>5. Cable(Tail(loop), Wanted') <=> Cable(Tail(loop), TRUE)
    BY <2>3, NewestKnown DEF Cable
  <2>6. Cable(Tail(loop), TRUE) <=> Cable(loop, Wanted)
    BY <2>1, CableTaken
  <2> QED
    BY <1>b, <2>1, <2>2, <2>4, <2>5, <2>6
<1>9. CASE EthDisconnected
  <2>1. Handles("CableDown") /\ Order("UpWifi") /\ isDown' = isDown /\ eth' = eth
    BY <1>9 DEF EthDisconnected, wifi
  <2>2. /\ ~missed /\ loop' = Append(Tail(loop), "Trigger")
        /\ orders' = Append(orders, "UpWifi") /\ Tail(loop) \in Seq(Events)
    BY <1>a, <2>1, OrderCases, HandlesLoop
  <2>3. ~Wanted'
    BY <1>a, <1>c, <2>2, NewestAppend DEF Wanted
  <2>4. Cable(loop', Wanted') <=> Cable(Tail(loop), Wanted')
    BY <1>h, <2>2
  <2>5. Cable(Tail(loop), Wanted') <=> Cable(Tail(loop), FALSE)
    BY <2>3, NewestKnown DEF Cable
  <2>6. Cable(Tail(loop), FALSE) <=> Cable(loop, Wanted)
    BY <2>1, CableTaken
  <2> QED
    BY <1>b, <2>1, <2>2, <2>4, <2>5, <2>6
<1>10. CASE EthGotIp
  <2>1. /\ Handles("EthGotIp") /\ loop' = Tail(loop) /\ UNCHANGED <<orders, isDown, eth, missed>>
    BY <1>10 DEF EthGotIp, queues, wifi
  <2> QED
    BY <1>b, <1>d, <1>g, <2>1
<1>11. CASE StaStart
  <2>1. /\ Handles("StaStart") /\ loop' = Tail(loop) /\ UNCHANGED <<orders, isDown, eth, missed>>
    BY <1>11 DEF StaStart, queues
  <2> QED
    BY <1>b, <1>d, <1>g, <2>1
<1>12. CASE StaDisconnected
  <2>1. /\ Handles("StaDisconnected") /\ loop' = Tail(loop)
        /\ UNCHANGED <<orders, isDown, eth, missed>>
    BY <1>12 DEF StaDisconnected, queues
  <2> QED
    BY <1>b, <1>d, <1>g, <2>1
<1>13. CASE StaGotIp
  <2>1. /\ Handles("StaGotIp") /\ loop' = Tail(loop) /\ UNCHANGED <<orders, isDown, eth, missed>>
    BY <1>13 DEF StaGotIp, queues
  <2> QED
    BY <1>b, <1>d, <1>g, <2>1
<1>14. CASE WifiEventRecvHandler
  <2>1. Tells(Driver(sta, Tail(loop), missed), Driver(sta', loop', missed'))
    BY <1>14, TellsHandled
  <2>2. ~missed /\ \A k \in BOOLEAN : (Cable(loop', k) <=> Cable(Tail(loop), k))
    BY <2>1 DEF Tells, Driver
  <2>3. Handles("Trigger") /\ eth' = eth
    BY <1>14 DEF WifiEventRecvHandler
  <2>4. Cable(Tail(loop), Wanted) <=> Cable(loop, Wanted)
    <3>1. "Trigger" \notin {"CableUp", "CableDown"}
      OBVIOUS
    <3>2. \A k : (Cable(Tail(loop), k) <=> Cable(loop, k))
      BY <2>3, <3>1, CableTaken
    <3> QED
      BY <3>2
  <2>5. Wanted' <=> Wanted
    <3>1. CASE orders = <<>>
      BY <1>14, <3>1 DEF WifiEventRecvHandler, Popped, Wanted
    <3>2. CASE orders # <<>>
      <4>1. orders' = Tail(orders) /\ isDown' = (Head(orders) = "DownWifi")
        BY <1>14, <3>2 DEF WifiEventRecvHandler, Popped
      <4>2. Head(orders) \in {"DownWifi", "UpWifi"}
        BY <1>c, <3>2 DEF Orders
      <4>3. CASE Head(orders) = "DownWifi"
        <5>1. Newest(Tail(orders), "DownWifi", "UpWifi", TRUE) <=> Wanted
          BY <1>c, <3>2, <4>3, NewestTail DEF Wanted
        <5>2. Wanted' <=> Newest(Tail(orders), "DownWifi", "UpWifi", TRUE)
          BY <4>1, <4>3, NewestKnown DEF Wanted
        <5> QED
          BY <5>1, <5>2
      <4>4. CASE Head(orders) = "UpWifi"
        <5>1. Newest(Tail(orders), "DownWifi", "UpWifi", FALSE) <=> Wanted
          BY <1>c, <3>2, <4>4, NewestTail DEF Wanted
        <5>2. Wanted' <=> Newest(Tail(orders), "DownWifi", "UpWifi", FALSE)
          BY <4>1, <4>4, NewestKnown DEF Wanted
        <5> QED
          BY <5>1, <5>2
      <4> QED
        BY <4>2, <4>3, <4>4
    <3> QED
      BY <3>1, <3>2
  <2> QED
    BY <1>b, <1>e, <2>2, <2>3, <2>4, <2>5
<1>15. CASE UNCHANGED vars
  BY <1>b, <1>d, <1>15 DEF vars
<1> QED
  BY <1>1, <1>2, <1>3, <1>4, <1>5, <1>6, <1>7, <1>8, <1>9, <1>10, <1>11, <1>12,
     <1>13, <1>14, <1>15 DEF Next, EventLoop

(* Unless something was lost, the newest of the cable's events and of the  *)
(* orders that wait is the cable as it is, or isDown is when none waits    *)
(* (EthEventHandler and WifiEventRecvHandler).                             *)
THEOREM FollowsCableHolds == Spec => []FollowsCable
<1>1. Init => TypeOK /\ FollowsCable
  <2>1. Init => FollowsCable
    BY DEF Init, FollowsCable, Newest
  <2> QED
    BY <2>1, TypeInit, NetAssumption
<1>2. TypeOK /\ FollowsCable /\ [Next]_vars => (TypeOK /\ FollowsCable)'
  BY TypeStep, FollowsCableStep, NetAssumption
<1> QED
  BY <1>1, <1>2, PTL DEF Spec

---------------------------------------------------------------------------
(* What the interfaces report.                                             *)

LEMMA EthTaken ==
    ASSUME NetAssumption, TypeOK, NEW e, Handles(e), NEW k
    PROVE  /\ e = "EthGotIp" => (Eth(Tail(loop), TRUE) <=> Eth(loop, k))
           /\ e = "CableDown" => (Eth(Tail(loop), FALSE) <=> Eth(loop, k))
           /\ e \notin {"EthGotIp", "CableDown"} => (Eth(Tail(loop), k) <=> Eth(loop, k))
<1>1. loop # <<>> /\ loop \in Seq(Events) /\ Head(loop) = e
  BY HandlesLoop DEF TypeOK
<1> QED
  BY <1>1, NewestTail DEF Eth

LEMMA WifiTaken ==
    ASSUME NetAssumption, TypeOK, NEW e, Handles(e), NEW k
    PROVE  /\ e = "StaGotIp" => (Wifi(Tail(loop), TRUE) <=> Wifi(loop, k))
           /\ e = "StaDisconnected" => (Wifi(Tail(loop), FALSE) <=> Wifi(loop, k))
           /\ e \notin {"StaGotIp", "StaDisconnected"} => (Wifi(Tail(loop), k) <=> Wifi(loop, k))
<1>1. loop # <<>> /\ loop \in Seq(Events) /\ Head(loop) = e
  BY HandlesLoop DEF TypeOK
<1> QED
  BY <1>1, NewestTail DEF Wifi

LEMMA EthAppend ==
    ASSUME NEW q \in Seq(Events), NEW e \in Events, NEW k
    PROVE  /\ e = "EthGotIp" => Eth(Append(q, e), k)
           /\ e = "CableDown" => ~Eth(Append(q, e), k)
           /\ e \notin {"EthGotIp", "CableDown"} => (Eth(Append(q, e), k) <=> Eth(q, k))
  BY NewestAppend DEF Eth

LEMMA WifiAppend ==
    ASSUME NEW q \in Seq(Events), NEW e \in Events, NEW k
    PROVE  /\ e = "StaGotIp" => Wifi(Append(q, e), k)
           /\ e = "StaDisconnected" => ~Wifi(Append(q, e), k)
           /\ e \notin {"StaGotIp", "StaDisconnected"} => (Wifi(Append(q, e), k) <=> Wifi(q, k))
  BY NewestAppend DEF Wifi

LEMMA ReportsStep ==
    NetAssumption /\ TypeOK /\ ReportsConnection /\ [Next]_vars => ReportsConnection'
<1> DEFINE E == Eth(loop, told["Eth"]) <=> eth = "online"
<1> DEFINE W == Wifi(loop, told["Wifi"]) <=> sta = "online"
<1> DEFINE B == isConnect = told["Wifi"]
<1> SUFFICES ASSUME NetAssumption, TypeOK, ReportsConnection, [Next]_vars, ~missed'
             PROVE  E' /\ W' /\ B'
  BY DEF ReportsConnection, Eth, Wifi
<1>a. /\ "CableUp" \in Events /\ "CableDown" \in Events /\ "EthGotIp" \in Events
      /\ "StaStart" \in Events /\ "StaDisconnected" \in Events
      /\ "StaGotIp" \in Events /\ "Trigger" \in Events
      /\ "UpWifi" \in Orders /\ "DownWifi" \in Orders
  BY DEF Events, Orders
<1>b. ~missed => E /\ W /\ B
  BY DEF ReportsConnection, Eth, Wifi
<1>c. loop \in Seq(Events)
  BY DEF TypeOK
<1>t. /\ told \in [{"Eth", "Wifi"} -> BOOLEAN]
      /\ told["Eth"] \in BOOLEAN /\ told["Wifi"] \in BOOLEAN
  BY DEF TypeOK
<1>u. ASSUME NEW e \in Events
      PROVE  /\ e = "EthGotIp" => Eth(Append(loop, e), told'["Eth"])
             /\ e = "CableDown" => ~Eth(Append(loop, e), told'["Eth"])
             /\ e \notin {"EthGotIp", "CableDown"} =>
                  (Eth(Append(loop, e), told["Eth"]) <=> Eth(loop, told["Eth"]))
             /\ e = "StaGotIp" => Wifi(Append(loop, e), told'["Wifi"])
             /\ e = "StaDisconnected" => ~Wifi(Append(loop, e), told'["Wifi"])
             /\ e \notin {"StaGotIp", "StaDisconnected"} =>
                  (Wifi(Append(loop, e), told["Wifi"]) <=> Wifi(loop, told["Wifi"]))
  <2>1. /\ e = "EthGotIp" => Eth(Append(loop, e), told'["Eth"])
        /\ e = "CableDown" => ~Eth(Append(loop, e), told'["Eth"])
    BY <1>c, EthAppend
  <2>2. e \notin {"EthGotIp", "CableDown"} =>
          (Eth(Append(loop, e), told["Eth"]) <=> Eth(loop, told["Eth"]))
    BY <1>c, EthAppend
  <2>3. /\ e = "StaGotIp" => Wifi(Append(loop, e), told'["Wifi"])
        /\ e = "StaDisconnected" => ~Wifi(Append(loop, e), told'["Wifi"])
    BY <1>c, WifiAppend
  <2>4. e \notin {"StaGotIp", "StaDisconnected"} =>
          (Wifi(Append(loop, e), told["Wifi"]) <=> Wifi(loop, told["Wifi"]))
    BY <1>c, WifiAppend
  <2> QED
    BY <2>1, <2>2, <2>3, <2>4
<1>d. ASSUME NEW e \in Events, Post(e)
      PROVE  ~missed /\ loop' = Append(loop, e)
  BY <1>d, PostCases
<1>v. ASSUME NEW e, Handles(e)
      PROVE  /\ e \notin {"EthGotIp", "CableDown"} =>
                  (Eth(Tail(loop), told["Eth"]) <=> Eth(loop, told["Eth"]))
             /\ e \notin {"StaGotIp", "StaDisconnected"} =>
                  (Wifi(Tail(loop), told["Wifi"]) <=> Wifi(loop, told["Wifi"]))
  <2>1. e \notin {"EthGotIp", "CableDown"} =>
          (Eth(Tail(loop), told["Eth"]) <=> Eth(loop, told["Eth"]))
    BY <1>v, EthTaken
  <2>2. e \notin {"StaGotIp", "StaDisconnected"} =>
          (Wifi(Tail(loop), told["Wifi"]) <=> Wifi(loop, told["Wifi"]))
    BY <1>v, WifiTaken
  <2> QED
    BY <2>1, <2>2
<1>w. /\ "CableUp" \notin {"EthGotIp", "CableDown"} /\ "Trigger" \notin {"EthGotIp", "CableDown"}
      /\ "CableUp" \notin {"StaGotIp", "StaDisconnected"}
      /\ "CableDown" \notin {"StaGotIp", "StaDisconnected"}
      /\ "Trigger" \notin {"StaGotIp", "StaDisconnected"}
  OBVIOUS
<1>e. ASSUME NEW e \in Events, Post(e), e \notin {"EthGotIp", "CableDown"},
             UNCHANGED <<told, eth>>
      PROVE  E'
  BY <1>b, <1>d, <1>e, <1>u
<1>f. ASSUME NEW e \in Events, Post(e), e \notin {"StaGotIp", "StaDisconnected"},
             UNCHANGED told, sta' = "online" <=> sta = "online"
      PROVE  W'
  BY <1>b, <1>d, <1>f, <1>u
<1>g. ASSUME NEW e, Handles(e), e \notin {"EthGotIp", "CableDown"}, loop' = Tail(loop),
             UNCHANGED <<missed, eth>>, told'["Eth"] = told["Eth"]
      PROVE  E'
  BY <1>b, <1>g, EthTaken
<1>h. ASSUME NEW e, Handles(e), e \notin {"StaGotIp", "StaDisconnected"},
             loop' = Tail(loop), UNCHANGED missed, told'["Wifi"] = told["Wifi"],
             sta' = "online" <=> sta = "online"
      PROVE  W'
  BY <1>b, <1>h, WifiTaken
<1>i. UNCHANGED <<loop, missed, told, eth, sta, isConnect>> => E' /\ W' /\ B'
  BY <1>b
<1>j. ~missed /\ UNCHANGED <<told, isConnect>> => B'
  BY <1>b
<1>k. Connected(sta) = "online" <=> sta = "online"
  BY DEF Connected
<1> HIDE DEF E, W, B
<1>1. CASE StaProgress
  <2>1. UNCHANGED <<told, eth, isConnect>>
    BY <1>1 DEF StaProgress, wifi
  <2>2. CASE sta = "connecting" /\ sta' = "connected" /\ UNCHANGED <<loop, missed>>
    BY <1>b, <2>1, <2>2 DEF E, W, B
  <2>3. CASE sta = "connected" /\ sta' = "online" /\ Post("StaGotIp")
    <3>1. ~missed /\ E' /\ B'
      BY <1>a, <1>d, <1>e, <1>j, <2>1, <2>3
    <3>2. W'
      BY <1>a, <1>d, <1>u, <2>3 DEF W
    <3> QED
      BY <3>1, <3>2
  <2>4. CASE sta \in Active /\ sta' = "idle" /\ Post("StaDisconnected")
    <3>1. ~missed /\ E' /\ B'
      BY <1>a, <1>d, <1>e, <1>j, <2>1, <2>4
    <3>2. W'
      BY <1>a, <1>d, <1>u, <2>4 DEF W
    <3> QED
      BY <3>1, <3>2
  <2> QED
    BY <1>1, <2>2, <2>3, <2>4 DEF StaProgress
<1>2. CASE EthProgress
  <2>1. UNCHANGED <<told, sta, isConnect>>
    BY <1>2 DEF EthProgress, wifi
  <2>2. CASE eth = "down" /\ eth' = "up" /\ Post("CableUp")
    <3>1. ~missed /\ W' /\ B'
      BY <1>a, <1>d, <1>f, <1>j, <2>1, <2>2
    <3>2. E'
      BY <1>a, <1>b, <1>d, <1>u, <2>1, <2>2 DEF E
    <3> QED
      BY <3>1, <3>2
  <2>3. CASE eth = "up" /\ eth' = "online" /\ Post("EthGotIp")
    <3>1. ~missed /\ W' /\ B'
      BY <1>a, <1>d, <1>f, <1>j, <2>1, <2>3
    <3>2. E'
      BY <1>a, <1>d, <1>u, <2>3 DEF E
    <3> QED
      BY <3>1, <3>2
  <2>4. CASE eth # "down" /\ eth' = "down" /\ Post("CableDown")
    <3>1. ~missed /\ W' /\ B'
      BY <1>a, <1>d, <1>f, <1>j, <2>1, <2>4
    <3>2. E'
      BY <1>a, <1>d, <1>u, <2>4 DEF E
    <3> QED
      BY <3>1, <3>2
  <2> QED
    BY <1>2, <2>2, <2>3, <2>4 DEF EthProgress
<1>3. CASE WifiInit
  <2>1. Post("StaStart") /\ UNCHANGED <<told, eth, isConnect>> /\ sta' = Started(sta)
    BY <1>3 DEF WifiInit, wifi
  <2>2. sta' = "online" <=> sta = "online"
    BY <2>1 DEF Started
  <2> QED
    BY <1>a, <1>d, <1>e, <1>f, <1>j, <2>1, <2>2
<1>4. CASE Poll
  BY <1>i, <1>4 DEF Poll, wifi
<1>5. ASSUME NEW m \in Configs, MqttSends(m) PROVE E' /\ W' /\ B'
  BY <1>i, <1>5 DEF MqttSends, wifi
<1>6. CASE MqttTriggers
  <2>1. Post("Trigger") /\ UNCHANGED <<told, eth, sta, isConnect>>
    BY <1>6 DEF MqttTriggers, wifi
  <2> QED
    BY <1>a, <1>d, <1>e, <1>f, <1>j, <2>1
<1>7. CASE Take
  BY <1>i, <1>7 DEF Take, wifi
<1>8. CASE EthConnected
  <2>1. /\ Handles("CableUp") /\ Order("DownWifi")
        /\ UNCHANGED <<told, eth, sta, isConnect>>
    BY <1>8 DEF EthConnected, wifi
  <2>2. ~missed /\ loop' = Append(Tail(loop), "Trigger") /\ Tail(loop) \in Seq(Events)
    BY <1>a, <2>1, OrderCases, HandlesLoop
  <2>3. Eth(loop', told["Eth"]) <=> Eth(loop, told["Eth"])
    <3>1. Eth(loop', told["Eth"]) <=> Eth(Tail(loop), told["Eth"])
      BY <1>a, <2>2, EthAppend
    <3>2. Eth(Tail(loop), told["Eth"]) <=> Eth(loop, told["Eth"])
      BY <1>v, <1>w, <2>1
    <3> QED
      BY <3>1, <3>2
  <2>4. Wifi(loop', told["Wifi"]) <=> Wifi(loop, told["Wifi"])
    <3>1. Wifi(loop', told["Wifi"]) <=> Wifi(Tail(loop), told["Wifi"])
      BY <1>a, <2>2, WifiAppend
    <3>2. Wifi(Tail(loop), told["Wifi"]) <=> Wifi(loop, told["Wifi"])
      BY <1>v, <1>w, <2>1
    <3> QED
      BY <3>1, <3>2
  <2> QED
    BY <1>b, <1>j, <2>1, <2>2, <2>3, <2>4 DEF E, W
<1>9. CASE EthDisconnected
  <2>1. Handles("CableDown") /\ Order("UpWifi") /\ UNCHANGED <<eth, sta, isConnect>>
    BY <1>9 DEF EthDisconnected, wifi
  <2>2. ~missed /\ loop' = Append(Tail(loop), "Trigger") /\ Tail(loop) \in Seq(Events)
    BY <1>a, <2>1, OrderCases, HandlesLoop
  <2>3. told'["Eth"] = FALSE /\ told'["Wifi"] = told["Wifi"]
    BY <1>t, <1>9 DEF EthDisconnected
  <2>4. Eth(loop', FALSE) <=> Eth(loop, told["Eth"])
    <3>1. Eth(loop', FALSE) <=> Eth(Tail(loop), FALSE)
      BY <1>a, <2>2, EthAppend
    <3>2. Eth(Tail(loop), FALSE) <=> Eth(loop, told["Eth"])
      <4>1. Handles("CableDown")
        BY <2>1
      <4> QED
        BY <4>1, EthTaken
    <3> QED
      BY <3>1, <3>2
  <2>5. Wifi(loop', told["Wifi"]) <=> Wifi(loop, told["Wifi"])
    <3>1. Wifi(loop', told["Wifi"]) <=> Wifi(Tail(loop), told["Wifi"])
      BY <1>a, <2>2, WifiAppend
    <3>2. Wifi(Tail(loop), told["Wifi"]) <=> Wifi(loop, told["Wifi"])
      BY <1>v, <1>w, <2>1
    <3> QED
      BY <3>1, <3>2
  <2> QED
    BY <1>b, <2>1, <2>2, <2>3, <2>4, <2>5 DEF E, W, B
<1>10. CASE EthGotIp
  <2>1. /\ Handles("EthGotIp") /\ loop' = Tail(loop) /\ UNCHANGED <<missed, eth, sta, isConnect>>
    BY <1>10 DEF EthGotIp, queues, wifi
  <2>2. told'["Eth"] = TRUE /\ told'["Wifi"] = told["Wifi"]
    BY <1>t, <1>10 DEF EthGotIp
  <2>3. Eth(loop', TRUE) <=> Eth(loop, told["Eth"])
    BY <2>1, EthTaken
  <2>4. W'
    BY <1>h, <2>1, <2>2
  <2> QED
    BY <1>b, <2>1, <2>2, <2>3, <2>4 DEF E, B
<1>11. CASE StaStart
  <2>1. /\ Handles("StaStart") /\ loop' = Tail(loop) /\ sta' = Connected(sta)
        /\ UNCHANGED <<missed, eth, told, isConnect>>
    BY <1>11 DEF StaStart, queues
  <2> QED
    BY <1>g, <1>h, <1>j, <1>k, <2>1
<1>12. CASE StaDisconnected
  <2>1. /\ Handles("StaDisconnected") /\ loop' = Tail(loop) /\ sta' = Connected(sta)
        /\ isConnect' = FALSE
        /\ UNCHANGED <<missed, eth>>
    BY <1>12 DEF StaDisconnected, queues
  <2>2. told'["Wifi"] = FALSE /\ told'["Eth"] = told["Eth"]
    BY <1>t, <1>12 DEF StaDisconnected
  <2>3. Wifi(loop', FALSE) <=> Wifi(loop, told["Wifi"])
    BY <2>1, WifiTaken
  <2>4. E'
    BY <1>g, <2>1, <2>2
  <2> QED
    BY <1>b, <1>k, <2>1, <2>2, <2>3, <2>4 DEF W, B
<1>13. CASE StaGotIp
  <2>1. /\ Handles("StaGotIp") /\ loop' = Tail(loop) /\ isConnect' = TRUE
        /\ UNCHANGED <<missed, eth, sta>>
    BY <1>13 DEF StaGotIp, queues
  <2>2. told'["Wifi"] = TRUE /\ told'["Eth"] = told["Eth"]
    BY <1>t, <1>13 DEF StaGotIp
  <2>3. Wifi(loop', TRUE) <=> Wifi(loop, told["Wifi"])
    BY <2>1, WifiTaken
  <2>4. E'
    BY <1>g, <2>1, <2>2
  <2> QED
    BY <1>b, <2>1, <2>2, <2>3, <2>4 DEF W, B
<1>14. CASE WifiEventRecvHandler
  <2>1. Tells(Driver(sta, Tail(loop), missed), Driver(sta', loop', missed'))
    BY <1>14, TellsHandled
  <2>2. UNCHANGED <<eth, told, isConnect>>
    BY <1>14 DEF WifiEventRecvHandler
  <2>6. Handles("Trigger")
    BY <1>14 DEF WifiEventRecvHandler
  <2>3. /\ ~missed
        /\ Eth(loop', told["Eth"]) <=> Eth(Tail(loop), told["Eth"])
        /\ (Wifi(Tail(loop), told["Wifi"]) <=> sta = "online")
             => (Wifi(loop', told["Wifi"]) <=> sta' = "online")
    BY <1>t, <2>1 DEF Tells, Driver
  <2>4. Eth(Tail(loop), told["Eth"]) <=> Eth(loop, told["Eth"])
    BY <1>v, <1>w, <2>6
  <2>5. Wifi(Tail(loop), told["Wifi"]) <=> Wifi(loop, told["Wifi"])
    BY <1>v, <1>w, <2>6
  <2> QED
    BY <1>b, <1>j, <2>2, <2>3, <2>4, <2>5 DEF E, W
<1>15. CASE UNCHANGED vars
  BY <1>i, <1>15 DEF vars
<1> QED
  BY <1>1, <1>2, <1>3, <1>4, <1>5, <1>6, <1>7, <1>8, <1>9, <1>10, <1>11, <1>12,
     <1>13, <1>14, <1>15 DEF Next, EventLoop

(* Unless something was lost, what an interface last reported to the       *)
(* module differs from its connection only as far as events still wait,    *)
(* and isConnect is what WiFi reported, also for a station that was        *)
(* disconnected or stopped on purpose (WifiEventHandler, EthEventHandler). *)
THEOREM ReportsConnectionHolds == Spec => []ReportsConnection
<1>1. Init => TypeOK /\ ReportsConnection
  <2>1. ASSUME Init PROVE ReportsConnection
    <3>1. /\ Len(loop) = 0 /\ told["Eth"] = FALSE /\ told["Wifi"] = FALSE
          /\ eth = "down" /\ sta = "stopped" /\ isConnect = FALSE
      BY <2>1 DEF Init
    <3>2. Newest(loop, "EthGotIp", "CableDown", told["Eth"]) <=> eth = "online"
      BY <3>1 DEF Newest
    <3>3. Newest(loop, "StaGotIp", "StaDisconnected", told["Wifi"]) <=> sta = "online"
      BY <3>1 DEF Newest
    <3> QED
      BY <3>1, <3>2, <3>3 DEF ReportsConnection
  <2> QED
    BY <2>1, TypeInit, NetAssumption
<1>2. TypeOK /\ ReportsConnection /\ [Next]_vars => (TypeOK /\ ReportsConnection)'
  BY TypeStep, ReportsStep, NetAssumption
<1> QED
  BY <1>1, <1>2, PTL DEF Spec

---------------------------------------------------------------------------
(* Connection attempts.                                                    *)

LEMMA NeverLeftIdleStep ==
    NetAssumption /\ TypeOK /\ NeverLeftIdle /\ [Next]_vars => NeverLeftIdle'
<1> SUFFICES ASSUME NetAssumption, TypeOK, NeverLeftIdle, [Next]_vars,
                    ~missed', sta' = "idle"
             PROVE  Attempted(loop')
  BY DEF NeverLeftIdle, Attempted
<1>a. /\ "CableUp" \in Events /\ "CableDown" \in Events /\ "EthGotIp" \in Events
      /\ "StaStart" \in Events /\ "StaDisconnected" \in Events
      /\ "StaGotIp" \in Events /\ "Trigger" \in Events
      /\ "UpWifi" \in Orders /\ "DownWifi" \in Orders
  BY DEF Events, Orders
<1>b. ~missed /\ sta = "idle" => Attempted(loop)
  BY DEF NeverLeftIdle, Attempted
<1>c. loop \in Seq(Events)
  BY DEF TypeOK
<1>d. ASSUME NEW e \in Events, Post(e),
             sta = "idle" \/ e \in {"StaStart", "StaDisconnected"}
      PROVE  Attempted(loop')
  <2>1. ~missed /\ loop' = Append(loop, e)
    BY <1>d, PostCases
  <2> QED
    BY <1>b, <1>c, <1>d, <2>1, AttemptedAppend
<1>e. ASSUME NEW e, Handles(e), e \notin {"StaStart", "StaDisconnected"},
             ~missed, sta = "idle"
      PROVE  Attempted(Tail(loop))
  <2>1. loop # <<>> /\ Head(loop) = e
    BY <1>e, HandlesLoop
  <2> QED
    BY <1>b, <1>c, <1>e, <2>1, AttemptedTail
<1>f. Connected(sta) # "idle"
  BY DEF Connected
<1>1. CASE StaProgress
  <2>1. Post("StaDisconnected")
    BY <1>1 DEF StaProgress
  <2> QED
    BY <1>a, <1>d, <2>1
<1>2. CASE EthProgress
  <2>1. sta' = sta
    BY <1>2 DEF EthProgress
  <2> QED
    BY <1>a, <1>d, <1>2, <2>1 DEF EthProgress
<1>3. CASE WifiInit
  BY <1>a, <1>d, <1>3 DEF WifiInit
<1>4. CASE Poll
  BY <1>b, <1>4 DEF Poll
<1>5. ASSUME NEW m \in Configs, MqttSends(m) PROVE Attempted(loop')
  BY <1>b, <1>5 DEF MqttSends
<1>6. CASE MqttTriggers
  <2>1. Post("Trigger") /\ sta' = sta
    BY <1>6 DEF MqttTriggers
  <2> QED
    BY <1>a, <1>d, <2>1
<1>7. CASE Take
  BY <1>b, <1>7 DEF Take
<1>8. CASE EthConnected
  <2>1. Handles("CableUp") /\ Order("DownWifi") /\ sta' = sta
    BY <1>8 DEF EthConnected
  <2>2. ~missed /\ loop' = Append(Tail(loop), "Trigger") /\ Tail(loop) \in Seq(Events)
    BY <1>a, <2>1, OrderCases, HandlesLoop
  <2>3. Attempted(Tail(loop))
    BY <1>e, <2>1, <2>2
  <2> QED
    BY <1>a, <2>2, <2>3, AttemptedAppend
<1>9. CASE EthDisconnected
  <2>1. Handles("CableDown") /\ Order("UpWifi") /\ sta' = sta
    BY <1>9 DEF EthDisconnected
  <2>2. ~missed /\ loop' = Append(Tail(loop), "Trigger") /\ Tail(loop) \in Seq(Events)
    BY <1>a, <2>1, OrderCases, HandlesLoop
  <2>3. Attempted(Tail(loop))
    BY <1>e, <2>1, <2>2
  <2> QED
    BY <1>a, <2>2, <2>3, AttemptedAppend
<1>10. CASE EthGotIp
  <2>1. Handles("EthGotIp") /\ loop' = Tail(loop) /\ sta' = sta /\ missed' = missed
    BY <1>10 DEF EthGotIp
  <2> QED
    BY <1>e, <2>1
<1>11. CASE StaStart
  BY <1>f, <1>11 DEF StaStart
<1>12. CASE StaDisconnected
  BY <1>f, <1>12 DEF StaDisconnected
<1>13. CASE StaGotIp
  <2>1. Handles("StaGotIp") /\ loop' = Tail(loop) /\ sta' = sta /\ missed' = missed
    BY <1>13 DEF StaGotIp
  <2> QED
    BY <1>e, <2>1
<1>14. CASE WifiEventRecvHandler
  <2>1. Tells(Driver(sta, Tail(loop), missed), Driver(sta', loop', missed'))
    BY <1>14, TellsHandled
  <2>2. Handles("Trigger")
    BY <1>14 DEF WifiEventRecvHandler
  <2>3. ~missed /\ sta = "idle" => Attempted(Tail(loop))
    BY <1>e, <2>2
  <2>4. (sta = "idle" => missed \/ Attempted(Tail(loop))) => Attempted(loop')
    BY <2>1 DEF Tells, Driver
  <2> QED
    BY <2>3, <2>4
<1>15. CASE UNCHANGED vars
  BY <1>b, <1>15 DEF vars
<1> QED
  BY <1>1, <1>2, <1>3, <1>4, <1>5, <1>6, <1>7, <1>8, <1>9, <1>10, <1>11, <1>12,
     <1>13, <1>14, <1>15 DEF Next, EventLoop

(* Unless something was lost, a station that runs without a connection has *)
(* an event before it whose handler calls esp_wifi_connect, so that it is  *)
(* not left alone after a failure, a restart or a new configuration        *)
(* (WifiEventHandler).                                                     *)
THEOREM NeverLeftIdleHolds == Spec => []NeverLeftIdle
<1>1. Init => TypeOK /\ NeverLeftIdle
  <2>1. Init => NeverLeftIdle
    BY DEF Init, NeverLeftIdle
  <2> QED
    BY <2>1, TypeInit, NetAssumption
<1>2. TypeOK /\ NeverLeftIdle /\ [Next]_vars => (TypeOK /\ NeverLeftIdle)'
  BY TypeStep, NeverLeftIdleStep, NetAssumption
<1> QED
  BY <1>1, <1>2, PTL DEF Spec
============================================================================
