-------------------------- MODULE NbdServer_proofs --------------------------
(***************************************************************************)
(* For any number of requests and of retries: the answers of the streaming *)
(* server are those its transfers justify, and client and server stay in   *)
(* step on their socket.                                                   *)
(*                                                                         *)
(* A request is in one place at a time, in the socket, on the curl handle  *)
(* or among the answers; the errors counted for it are its failed          *)
(* attempts; and only the one configure request has a body behind it.      *)
(***************************************************************************)
EXTENDS NbdServer, TLAPS

GivenTo(h) == \E k \in DOMAIN Given : Given[k].handle = h

\* A request that the server has not read yet.
Waiting ==
    \A i \in DOMAIN inbox, h \in Handles : inbox[i] = [head |-> h] =>
        /\ h \in asked \ DOMAIN errors
        /\ causes[h] = <<>>
        /\ ~GivenTo(h)
        /\ \A j \in DOMAIN inbox : inbox[j] = inbox[i] => i = j

\* A request on the curl handle.
Trying ==
    \A h \in DOMAIN errors :
        /\ Len(causes[h]) = errors[h]
        /\ \A k \in DOMAIN causes[h] : causes[h][k] = "failed"
        /\ ~GivenTo(h)

Unasked == \A h \in Handles \ asked : causes[h] = <<>>

Framing ==
    /\ \A i \in DOMAIN inbox :
           /\ inbox[i] = [body |-> TRUE] => i > 1 /\ inbox[i - 1] = [head |-> Configure]
           /\ inbox[i] = [head |-> Configure] =>
                  ~url /\ i + 1 \in DOMAIN inbox /\ inbox[i + 1] = [body |-> TRUE]
    /\ url => Configure \in asked

NbdInv ==
    /\ TypeOK
    /\ Waiting
    /\ Trying
    /\ Unasked
    /\ AnswersHold
    /\ Framing
    /\ InStep

LEMMA ItemKinds ==
    /\ \A h : "head" \in DOMAIN [head |-> h] /\ [head |-> h].head = h /\ [head |-> h] # [body |-> TRUE]
    /\ "head" \notin DOMAIN [body |-> TRUE]
    /\ \A g, h : [head |-> g] = [head |-> h] => g = h
    /\ \A x \in Items : x = [body |-> TRUE] \/ \E h \in Handles \cup {"disc"} : x = [head |-> h]
<1>1. ASSUME NEW h PROVE "head" \in DOMAIN [head |-> h] /\ [head |-> h].head = h
    OBVIOUS
<1>2. "head" \notin DOMAIN [body |-> TRUE]
    OBVIOUS
<1>3. ASSUME NEW h PROVE [head |-> h] # [body |-> TRUE]
    BY <1>1, <1>2
<1>4. ASSUME NEW g, NEW h, [head |-> g] = [head |-> h] PROVE g = h
    BY <1>4
<1>5. ASSUME NEW x \in Items
      PROVE  x = [body |-> TRUE] \/ \E h \in Handles \cup {"disc"} : x = [head |-> h]
    BY DEF Items
<1> QED BY <1>1, <1>2, <1>3, <1>4, <1>5

LEMMA NbdInit == Init => NbdInv
<1> SUFFICES ASSUME Init PROVE NbdInv
    OBVIOUS
<1>1. DOMAIN inbox = {} /\ DOMAIN errors = {} /\ Given = <<>> /\ DOMAIN Given = {}
    BY DEF Init, Given
<1>2. TypeOK
    <2>1. causes \in [Handles -> Seq(Outcomes)]
        BY DEF Init
    <2>2. <<>> \in Seq(Answers) /\ <<>> \in Seq(Items)
        OBVIOUS
    <2> QED BY <1>1, <2>1, <2>2 DEF Init, TypeOK
<1>3. Waiting /\ Trying /\ Framing
    BY <1>1 DEF Init, Waiting, Trying, Framing
<1>4. AnswersHold
    BY <1>1 DEF AnswersHold
<1>5. Unasked /\ InStep
    BY DEF Init, Unasked, InStep
<1> QED BY <1>2, <1>3, <1>4, <1>5 DEF NbdInv

----------------------------------------------------------------------------
(* The client. *)

\* Nothing happens to the server, and the client has fewer answers or the same.
LEMMA FewerAnswers ==
    ASSUME NbdInv, UNCHANGED <<asked, errors, causes>>, Given' \in Seq(Answers),
           DOMAIN Given' \subseteq DOMAIN Given, \A i \in DOMAIN Given' : Given'[i] = Given[i]
    PROVE  /\ AnswersHold' /\ Trying' /\ Unasked'
           /\ \A h : GivenTo(h)' => GivenTo(h)
<1>1. \A h : GivenTo(h)' => GivenTo(h)
    BY DEF GivenTo
<1>2. AnswersHold'
    BY DEF NbdInv, AnswersHold
<1>3. Trying'
    BY <1>1 DEF NbdInv, Trying
<1>4. Unasked'
    BY DEF NbdInv, Unasked
<1> QED BY <1>1, <1>2, <1>3, <1>4

LEMMA ReceiveInv == ASSUME NbdInv, Receive PROVE NbdInv'
<1>1. got \in Seq(Answers) /\ outbox \in Seq(Answers) /\ outbox # <<>>
    BY DEF NbdInv, TypeOK, Receive
<1>2. got' = Append(got, Head(outbox)) /\ outbox' = Tail(outbox)
    BY DEF Receive
<1>3. /\ got' \in Seq(Answers) /\ outbox' \in Seq(Answers)
      /\ got' \o outbox' = got \o outbox
    BY <1>1, <1>2
<1>4. Given' = Given
    BY <1>3 DEF Given
<1> QED BY <1>3, <1>4 DEF Receive, NbdInv, TypeOK, Waiting, Trying, Unasked, AnswersHold, Framing,
              InStep, GivenTo

LEMMA AppendFacts ==
    ASSUME NEW S, NEW s \in Seq(S), NEW x \in S
    PROVE  /\ Append(s, x) \in Seq(S)
           /\ Len(s) \in Nat /\ DOMAIN s = 1..Len(s) /\ DOMAIN Append(s, x) = 1..(Len(s) + 1)
           /\ \A i \in 1..Len(s) : Append(s, x)[i] = s[i]
           /\ Append(s, x)[Len(s) + 1] = x
OBVIOUS

\* A request that has no body behind it is sent: a read, or the disconnect.
LEMMA SendFraming ==
    ASSUME NbdInv, NEW h \in Reads \cup {"disc"}, inbox' = Append(inbox, [head |-> h]),
           url' = url, asked \subseteq asked'
    PROVE  inbox' \in Seq(Items) /\ Framing'
<1> DEFINE x == [head |-> h]
           n == Len(inbox)
<1>1. x \in Items /\ h # Configure
    BY ReadsAssumption, HandlesAssumption DEF Items, Handles
<1>2. x # [body |-> TRUE] /\ x # [head |-> Configure]
    BY <1>1, ItemKinds
<1>3. inbox \in Seq(Items)
    BY DEF NbdInv, TypeOK
<1> HIDE DEF x
<1>4. inbox' = Append(inbox, x)
    BY DEF x
<1>5. /\ inbox' \in Seq(Items)
      /\ n \in Nat /\ DOMAIN inbox = 1..n /\ DOMAIN inbox' = 1..(n + 1)
      /\ \A i \in 1..n : inbox'[i] = inbox[i]
      /\ inbox'[n + 1] = x
    BY <1>1, <1>3, <1>4, AppendFacts
<1> HIDE DEF n
<1>6. ASSUME NEW i \in DOMAIN inbox', inbox'[i] \in {[body |-> TRUE], [head |-> Configure]}
      PROVE  i \in DOMAIN inbox /\ inbox'[i] = inbox[i]
    BY <1>2, <1>5, <1>6
<1>7. ASSUME NEW i \in DOMAIN inbox', inbox'[i] = [body |-> TRUE]
      PROVE  i > 1 /\ inbox'[i - 1] = [head |-> Configure]
    <2>1. i \in DOMAIN inbox /\ i > 1 /\ inbox[i - 1] = [head |-> Configure]
        BY <1>6, <1>7 DEF NbdInv, Framing
    <2>2. i - 1 \in 1..n
        BY <1>5, <2>1
    <2> QED BY <1>5, <2>1, <2>2
<1>8. ASSUME NEW i \in DOMAIN inbox', inbox'[i] = [head |-> Configure]
      PROVE  ~url' /\ i + 1 \in DOMAIN inbox' /\ inbox'[i + 1] = [body |-> TRUE]
    <2>1. i \in DOMAIN inbox /\ ~url /\ i + 1 \in DOMAIN inbox /\ inbox[i + 1] = [body |-> TRUE]
        BY <1>6, <1>8 DEF NbdInv, Framing
    <2> QED BY <1>5, <2>1
<1> QED BY <1>5, <1>7, <1>8 DEF NbdInv, Framing

LEMMA ReadInv == ASSUME NbdInv, NEW r \in Reads, Read(r) PROVE NbdInv'
<1>1. /\ r \in Handles /\ r \notin asked /\ r # "disc"
      /\ asked' = asked \cup {r} /\ inbox' = Append(inbox, [head |-> r])
      /\ UNCHANGED <<user, got, url, errors, outbox, server, causes>>
    BY HandlesAssumption DEF Read, Handles, serverVars
<1>2. inbox' \in Seq(Items) /\ Framing'
    BY <1>1, SendFraming
<1>3. Given' = Given
    BY <1>1 DEF Given
<1>4. TypeOK'
    BY <1>1, <1>2 DEF NbdInv, TypeOK
<1>5. Given \in Seq(Answers)
    BY DEF Given, NbdInv, TypeOK
<1>6. AnswersHold' /\ ~GivenTo(r)
    BY <1>1, <1>3 DEF NbdInv, AnswersHold, GivenTo
<1>7. Trying' /\ Unasked' /\ InStep'
    BY <1>1, <1>3 DEF NbdInv, Trying, Unasked, InStep, GivenTo
<1>8. Waiting'
    <2>1. inbox \in Seq(Items) /\ [head |-> r] \in Items
        BY <1>1 DEF NbdInv, TypeOK, Items
    <2>2. /\ Len(inbox) \in Nat /\ DOMAIN inbox = 1..Len(inbox)
          /\ DOMAIN inbox' = 1..(Len(inbox) + 1)
          /\ \A i \in 1..Len(inbox) : inbox'[i] = inbox[i]
          /\ inbox'[Len(inbox) + 1] = [head |-> r]
        BY <1>1, <2>1, AppendFacts
    <2>3. \A i \in DOMAIN inbox : inbox[i] # [head |-> r]
        BY <1>1 DEF NbdInv, Waiting
    <2>4. SUFFICES ASSUME NEW i \in DOMAIN inbox', NEW h \in Handles, inbox'[i] = [head |-> h]
                   PROVE  /\ h \in asked' \ DOMAIN errors'
                          /\ causes'[h] = <<>>
                          /\ ~GivenTo(h)'
                          /\ \A j \in DOMAIN inbox' : inbox'[j] = inbox'[i] => i = j
        BY DEF Waiting
    <2>5. CASE i \in DOMAIN inbox
        <3>1. inbox[i] = [head |-> h]
            BY <2>2, <2>4, <2>5
        <3>2. /\ h \in asked \ DOMAIN errors /\ causes[h] = <<>> /\ ~GivenTo(h)
              /\ \A j \in DOMAIN inbox : inbox[j] = inbox[i] => i = j
            BY <2>5, <3>1 DEF NbdInv, Waiting
        <3>3. h # r
            BY <1>1, <3>2
        <3>4. \A j \in DOMAIN inbox' : inbox'[j] = inbox'[i] => i = j
            BY <2>2, <2>4, <2>5, <3>1, <3>2, <3>3, ItemKinds
        <3> QED BY <1>1, <1>3, <3>2, <3>4 DEF GivenTo
    <2>6. CASE i \notin DOMAIN inbox
        <3>1. i = Len(inbox) + 1 /\ h = r
            BY <2>2, <2>4, <2>6, ItemKinds
        <3>2. r \notin DOMAIN errors /\ causes[r] = <<>>
            BY <1>1 DEF NbdInv, TypeOK, Unasked
        <3>3. \A j \in DOMAIN inbox' : inbox'[j] = inbox'[i] => i = j
            BY <2>2, <2>3, <2>4, <3>1
        <3> QED BY <1>1, <1>3, <1>6, <3>1, <3>2, <3>3 DEF GivenTo
    <2> QED BY <2>5, <2>6
<1> QED BY <1>2, <1>4, <1>6, <1>7, <1>8 DEF NbdInv

LEMMA HangUpInv == ASSUME NbdInv, HangUp PROVE NbdInv'
<1>1. /\ user' = "closed" /\ outbox' = <<>> /\ inbox' = Append(inbox, [head |-> "disc"])
      /\ UNCHANGED <<asked, got, url, errors, server, causes>>
    BY DEF HangUp
<1>2. inbox' \in Seq(Items) /\ Framing'
    BY <1>1, SendFraming
<1>3. /\ Given' \in Seq(Answers) /\ DOMAIN Given' \subseteq DOMAIN Given
      /\ \A i \in DOMAIN Given' : Given'[i] = Given[i]
    BY <1>1 DEF Given, NbdInv, TypeOK
<1>4. AnswersHold' /\ Trying' /\ Unasked' /\ \A h : GivenTo(h)' => GivenTo(h)
    BY <1>1, <1>3, FewerAnswers
<1>5. TypeOK' /\ InStep'
    BY <1>1, <1>2 DEF NbdInv, TypeOK, InStep
<1>6. Waiting'
    <2>1. inbox \in Seq(Items) /\ [head |-> "disc"] \in Items
        BY DEF NbdInv, TypeOK, Items
    <2>2. /\ Len(inbox) \in Nat /\ DOMAIN inbox = 1..Len(inbox)
          /\ DOMAIN inbox' = 1..(Len(inbox) + 1)
          /\ \A i \in 1..Len(inbox) : inbox'[i] = inbox[i]
          /\ inbox'[Len(inbox) + 1] = [head |-> "disc"]
        BY <1>1, <2>1, AppendFacts
    <2>3. \A h \in Handles : [head |-> h] # [head |-> "disc"]
        BY ItemKinds, HandlesAssumption
    <2>4. \A i \in DOMAIN inbox', h \in Handles : inbox'[i] = [head |-> h] =>
              i \in DOMAIN inbox /\ inbox'[i] = inbox[i]
        BY <2>2, <2>3
    <2> QED BY <1>1, <1>4, <2>4 DEF NbdInv, Waiting
<1> QED BY <1>2, <1>4, <1>5, <1>6 DEF NbdInv

LEMMA DieInv == ASSUME NbdInv, Die PROVE NbdInv'
<1>1. /\ user' = "closed" /\ outbox' = <<>>
      /\ UNCHANGED <<asked, got, inbox, url, errors, server, causes>>
    BY DEF Die
<1>2. /\ Given' \in Seq(Answers) /\ DOMAIN Given' \subseteq DOMAIN Given
      /\ \A i \in DOMAIN Given' : Given'[i] = Given[i]
    BY <1>1 DEF Given, NbdInv, TypeOK
<1>3. AnswersHold' /\ Trying' /\ Unasked' /\ \A h : GivenTo(h)' => GivenTo(h)
    BY <1>1, <1>2, FewerAnswers
<1> QED BY <1>1, <1>3 DEF NbdInv, TypeOK, Waiting, Framing, InStep

\* The first of all requests, with its body.
LEMMA ConfiguringInv == ASSUME NbdInv, Configuring PROVE NbdInv'
<1> DEFINE c == [head |-> Configure]
           b == [body |-> TRUE]
           n == Len(inbox)
<1>1. /\ asked = {} /\ asked' = {Configure} /\ inbox' = inbox \o <<c, b>>
      /\ UNCHANGED <<user, got, url, errors, outbox, server, causes>>
    BY DEF Configuring, serverVars
<1>2. inbox \in Seq(Items) /\ c \in Items /\ b \in Items /\ b # c
    BY ItemKinds DEF NbdInv, TypeOK, Items, Handles
<1> HIDE DEF c, b
<1>3. /\ inbox' \in Seq(Items)
      /\ n \in Nat /\ DOMAIN inbox = 1..n /\ DOMAIN inbox' = 1..(n + 2)
      /\ \A i \in 1..n : inbox'[i] = inbox[i]
      /\ inbox'[n + 1] = c /\ inbox'[n + 2] = b
    BY <1>1, <1>2
<1> HIDE DEF n
<1>4. \A i \in DOMAIN inbox, h \in Handles : inbox[i] # [head |-> h]
    BY <1>1 DEF NbdInv, Waiting
<1>5. \A i \in DOMAIN inbox : inbox[i] # c /\ inbox[i] # b
    BY <1>1, <1>4, SMTT(30) DEF NbdInv, Framing, Handles, c, b
<1>6. Given' = Given /\ DOMAIN Given = {} /\ DOMAIN errors = {} /\ ~url
    BY <1>1 DEF Given, NbdInv, TypeOK, AnswersHold, Framing
<1>7. Framing'
    <2>1. \A i \in DOMAIN inbox' : /\ inbox'[i] = b => i = n + 2
                                  /\ inbox'[i] = c => i = n + 1
        BY <1>2, <1>3, <1>5
    <2>2. n + 2 > 1 /\ (n + 2) - 1 = n + 1 /\ (n + 1) + 1 = n + 2 /\ n + 2 \in DOMAIN inbox'
        BY <1>3
    <2>3. inbox'[n + 1] = c /\ inbox'[n + 2] = b /\ ~url'
        BY <1>1, <1>3, <1>6
    <2>4. ASSUME NEW i \in DOMAIN inbox', inbox'[i] = b
          PROVE  i > 1 /\ inbox'[i - 1] = c
        <3>1. i = n + 2
            BY <1>2, <1>3, <1>5, <2>4
        <3> QED BY <2>2, <2>3, <3>1
    <2>5. ASSUME NEW i \in DOMAIN inbox', inbox'[i] = c
          PROVE  ~url' /\ i + 1 \in DOMAIN inbox' /\ inbox'[i + 1] = b
        <3>1. i = n + 1
            BY <1>3, <2>1, <2>5
        <3> QED BY <2>2, <2>3, <3>1
    <2> QED BY <1>1, <1>6, <2>4, <2>5 DEF Framing, c, b
<1>8. Waiting'
    <2>1. ASSUME NEW i \in DOMAIN inbox', NEW h \in Handles, inbox'[i] = [head |-> h]
          PROVE  i = n + 1 /\ h = Configure
        <3>1. inbox'[i] # b
            BY <2>1, ItemKinds DEF b
        <3>2. i = n + 1
            BY <1>3, <1>4, <2>1, <3>1
        <3> QED BY <1>3, <2>1, <3>2, ItemKinds DEF c
    <2>2. \A j \in DOMAIN inbox' : inbox'[j] = inbox'[n + 1] => j = n + 1
        BY <1>2, <1>3, <1>5
    <2>3. causes[Configure] = <<>>
        BY <1>1 DEF NbdInv, Unasked, Handles
    <2>4. Configure \in asked' \ DOMAIN errors' /\ causes'[Configure] = <<>>
        BY <1>1, <1>6, <2>3
    <2>5. ~GivenTo(Configure)'
        BY <1>6 DEF GivenTo
    <2>6. ASSUME NEW i \in DOMAIN inbox', NEW h \in Handles, inbox'[i] = [head |-> h]
          PROVE  i = n + 1 /\ h = Configure /\ \A j \in DOMAIN inbox' : inbox'[j] = inbox'[i] => i = j
        BY <2>1, <2>2, <2>6
    <2> QED BY <2>4, <2>5, <2>6 DEF Waiting
<1>9. TypeOK' /\ Trying' /\ Unasked' /\ AnswersHold' /\ InStep'
    BY <1>1, <1>3, <1>6, SMTT(30) DEF NbdInv, TypeOK, Trying, Unasked, AnswersHold, InStep, Handles, GivenTo
<1> QED BY <1>7, <1>8, <1>9 DEF NbdInv

----------------------------------------------------------------------------
(* The server. *)

LEMMA TailFacts ==
    ASSUME NEW S, NEW s \in Seq(S), s # <<>>
    PROVE  /\ Tail(s) \in Seq(S)
           /\ Len(s) \in Nat /\ Len(s) >= 1
           /\ DOMAIN s = 1..Len(s) /\ DOMAIN Tail(s) = 1..(Len(s) - 1)
           /\ Len(Tail(s)) = Len(s) - 1
           /\ Head(s) = s[1]
           /\ \A i \in DOMAIN Tail(s) : i + 1 \in DOMAIN s /\ Tail(s)[i] = s[i + 1]
OBVIOUS

\* The server takes a request that has no body from the socket.
LEMMA TakeFraming ==
    ASSUME NbdInv, inbox # <<>>, inbox' = Tail(inbox), inbox[1] # [head |-> Configure],
           UNCHANGED <<asked, url>>
    PROVE  Framing'
<1>1. inbox \in Seq(Items)
    BY DEF NbdInv, TypeOK
<1>2. /\ Len(inbox) \in Nat /\ Len(inbox) >= 1 /\ DOMAIN inbox = 1..Len(inbox)
      /\ DOMAIN inbox' = 1..(Len(inbox) - 1)
      /\ \A i \in DOMAIN inbox' : i + 1 \in DOMAIN inbox /\ inbox'[i] = inbox[i + 1]
    BY <1>1, TailFacts
<1>3. ASSUME NEW i \in DOMAIN inbox', inbox'[i] = [body |-> TRUE]
      PROVE  i > 1 /\ inbox'[i - 1] = [head |-> Configure]
    <2>1. i \in Nat /\ i >= 1 /\ (i + 1) - 1 = i
        BY <1>2
    <2>2. inbox[i] = [head |-> Configure]
        <3>1. inbox[(i + 1) - 1] = [head |-> Configure]
            BY <1>2, <1>3 DEF NbdInv, Framing
        <3> QED BY <2>1, <3>1
    <2>3. i > 1
        BY <2>1, <2>2
    <2>4. i - 1 \in DOMAIN inbox' /\ (i - 1) + 1 = i
        BY <1>2, <2>3
    <2> QED BY <1>2, <2>2, <2>3, <2>4
<1>4. ASSUME NEW i \in DOMAIN inbox', inbox'[i] = [head |-> Configure]
      PROVE  ~url' /\ i + 1 \in DOMAIN inbox' /\ inbox'[i + 1] = [body |-> TRUE]
    <2>1. ~url /\ (i + 1) + 1 \in DOMAIN inbox /\ inbox[(i + 1) + 1] = [body |-> TRUE]
        BY <1>2, <1>4 DEF NbdInv, Framing
    <2>2. i + 1 \in DOMAIN inbox'
        BY <1>2, <2>1
    <2> QED BY <1>2, <2>1, <2>2
<1> QED BY <1>3, <1>4 DEF NbdInv, Framing

LEMMA TakeInv == ASSUME NbdInv, Take PROVE NbdInv'
<1>1. /\ server = "up" /\ inbox # <<>> /\ inbox \in Seq(Items)
      /\ UNCHANGED <<user, asked, got, outbox, causes>>
    BY DEF Take, NbdInv, TypeOK
<1>2. /\ Tail(inbox) \in Seq(Items)
      /\ Len(inbox) \in Nat /\ Len(inbox) >= 1
      /\ DOMAIN inbox = 1..Len(inbox) /\ DOMAIN Tail(inbox) = 1..(Len(inbox) - 1)
      /\ Len(Tail(inbox)) = Len(inbox) - 1
      /\ Head(inbox) = inbox[1]
      /\ \A i \in DOMAIN Tail(inbox) : i + 1 \in DOMAIN inbox /\ Tail(inbox)[i] = inbox[i + 1]
    BY <1>1, TailFacts
<1>3. 1 \in DOMAIN inbox /\ inbox[1] \in Items
    BY <1>1, <1>2
<1>4. inbox[1] # [body |-> TRUE]
    BY <1>3 DEF NbdInv, Framing
<1>5. PICK h \in Handles \cup {"disc"} : inbox[1] = [head |-> h]
    BY <1>3, <1>4, ItemKinds
<1>6. "head" \in DOMAIN Head(inbox) /\ Head(inbox).head = h
    BY <1>2, <1>5, ItemKinds
<1>7. Given' = Given
    BY <1>1 DEF Given
\* What stays in the socket.
<1>8. ASSUME NEW i \in DOMAIN Tail(inbox), NEW g \in Handles, Tail(inbox)[i] = [head |-> g]
      PROVE  /\ g \in asked \ DOMAIN errors /\ causes[g] = <<>> /\ ~GivenTo(g) /\ g # h
             /\ \A j \in DOMAIN Tail(inbox) : Tail(inbox)[j] = Tail(inbox)[i] => i = j
    <2>1. i + 1 \in DOMAIN inbox /\ inbox[i + 1] = [head |-> g] /\ i \in Nat /\ i >= 1
        BY <1>2, <1>8
    <2>2. /\ g \in asked \ DOMAIN errors /\ causes[g] = <<>> /\ ~GivenTo(g)
          /\ \A j \in DOMAIN inbox : inbox[j] = inbox[i + 1] => i + 1 = j
        BY <2>1 DEF NbdInv, Waiting
    <2>3. g # h
        BY <1>3, <1>5, <2>1, <2>2
    <2>4. ASSUME NEW j \in DOMAIN Tail(inbox), Tail(inbox)[j] = Tail(inbox)[i] PROVE i = j
        <3>1. j + 1 \in DOMAIN inbox /\ inbox[j + 1] = inbox[i + 1] /\ j \in Nat
            BY <1>2, <1>8, <2>1, <2>4
        <3>2. i + 1 = j + 1
            BY <2>2, <3>1
        <3> QED BY <2>1, <3>1, <3>2
    <2> QED BY <2>2, <2>3, <2>4
<1>9. CASE h = "disc"
    <2>1. /\ server' = "exited" /\ inbox' = Tail(inbox) /\ UNCHANGED <<url, errors>>
        BY <1>6, <1>9 DEF Take
    <2>2. inbox[1] # [head |-> Configure]
        BY <1>5, <1>9, ItemKinds, HandlesAssumption DEF Handles
    <2>3. Framing'
        BY <1>1, <2>1, <2>2, TakeFraming
    <2>4. Waiting'
        BY <1>1, <1>7, <1>8, <2>1 DEF Waiting, GivenTo
    <2>5. TypeOK'
        BY <1>1, <1>2, <2>1 DEF NbdInv, TypeOK
    <2> QED BY <1>1, <1>7, <2>1, <2>3, <2>4, <2>5 DEF NbdInv, Trying, Unasked, AnswersHold, InStep, GivenTo
<1>10. CASE h \in Handles
    <2>1. /\ inbox' = Start(h) /\ url' = (url \/ h = Configure)
          /\ errors' = With(errors, h, 0) /\ server' = server
        BY <1>6, <1>10, HandlesAssumption DEF Take
    <2>2. /\ h \in asked \ DOMAIN errors /\ causes[h] = <<>> /\ ~GivenTo(h)
          /\ \A j \in DOMAIN inbox : inbox[j] = inbox[1] => 1 = j
        BY <1>3, <1>5, <1>10 DEF NbdInv, Waiting
    <2>3. /\ DOMAIN errors' = DOMAIN errors \cup {h}
          /\ errors'[h] = 0
          /\ \A g \in DOMAIN errors : g # h /\ errors'[g] = errors[g]
        BY <2>1, <2>2 DEF With
    <2>4. Trying'
        BY <1>1, <1>7, <2>2, <2>3 DEF NbdInv, Trying, GivenTo
    <2>5. AnswersHold'
        <3>1. Given \in Seq(Answers)
            BY DEF Given, NbdInv, TypeOK
        <3>2. \A i \in DOMAIN Given : Given[i].handle # h
            BY <2>2 DEF GivenTo
        <3> QED BY <1>1, <1>7, <2>3, <3>2 DEF NbdInv, AnswersHold
    <2>6. inbox' \in Seq(Items) /\ Framing' /\ Waiting'
        <3>1. CASE h # Configure
            <4>1. inbox' = Tail(inbox) /\ url' = url
                BY <2>1, <3>1 DEF Start, NbdInv, TypeOK
            <4>2. inbox[1] # [head |-> Configure]
                BY <1>5, <3>1, ItemKinds
            <4>3. Framing'
                BY <1>1, <4>1, <4>2, TakeFraming
            <4>4. Waiting'
                BY <1>1, <1>7, <1>8, <2>3, <4>1 DEF Waiting, GivenTo
            <4> QED BY <1>2, <4>1, <4>3, <4>4
        <3>2. CASE h = Configure
            <4>1. ~url /\ 2 \in DOMAIN inbox /\ inbox[2] = [body |-> TRUE]
                <5>1. ~url /\ 1 + 1 \in DOMAIN inbox /\ inbox[1 + 1] = [body |-> TRUE]
                    BY <1>3, <1>5, <3>2 DEF NbdInv, Framing
                <5> QED BY <5>1
            <4>2. inbox' = Tail(Tail(inbox)) /\ url' = TRUE
                BY <2>1, <3>2, <4>1 DEF Start
            <4>3. Tail(inbox) # <<>>
                <5>1. Len(Tail(inbox)) # 0
                    BY <1>2, <4>1
                <5>2. Len(<<>>) = 0
                    OBVIOUS
                <5> QED BY <5>1, <5>2, Zenon
            <4>4. /\ inbox' \in Seq(Items)
                  /\ \A i \in DOMAIN inbox' : i + 1 \in DOMAIN Tail(inbox)
                                           /\ inbox'[i] = Tail(inbox)[i + 1]
                  /\ \A i \in DOMAIN inbox' : i \in Nat /\ i >= 1
                BY <1>2, <4>2, <4>3, TailFacts
            <4>5. \A i \in DOMAIN inbox' : /\ i + 2 \in DOMAIN inbox /\ inbox'[i] = inbox[i + 2]
                <5> TAKE i \in DOMAIN inbox'
                <5>1. (i + 1) + 1 \in DOMAIN inbox /\ inbox'[i] = inbox[(i + 1) + 1]
                    BY <1>2, <4>4
                <5>2. (i + 1) + 1 = i + 2
                    BY <4>4
                <5> QED BY <5>1, <5>2
            <4>6. ASSUME NEW i \in DOMAIN inbox'
                  PROVE  inbox'[i] # [head |-> Configure] /\ inbox'[i] # [body |-> TRUE]
                <5>1. i + 2 # 1 /\ (i + 2) - 1 # 1 /\ (i + 2) - 1 \in DOMAIN inbox
                    BY <1>2, <4>4, <4>5
                <5>2. inbox[i + 2] # [head |-> Configure] /\ inbox[(i + 2) - 1] # [head |-> Configure]
                    BY <1>5, <2>2, <3>2, <4>5, <5>1
                <5> QED BY <4>5, <5>2 DEF NbdInv, Framing
            <4>7. Framing'
                BY <1>1, <2>2, <3>2, <4>6 DEF Framing
            <4>8. Waiting'
                <5>1. SUFFICES ASSUME NEW i \in DOMAIN inbox', NEW g \in Handles,
                                      inbox'[i] = [head |-> g]
                               PROVE  /\ g \in asked' \ DOMAIN errors'
                                      /\ causes'[g] = <<>>
                                      /\ ~GivenTo(g)'
                                      /\ \A j \in DOMAIN inbox' : inbox'[j] = inbox'[i] => i = j
                    BY DEF Waiting
                <5>2. i + 1 \in DOMAIN Tail(inbox) /\ Tail(inbox)[i + 1] = [head |-> g]
                    BY <4>4, <5>1
                <5>3. /\ g \in asked \ DOMAIN errors /\ causes[g] = <<>> /\ ~GivenTo(g) /\ g # h
                      /\ \A j \in DOMAIN Tail(inbox) :
                             Tail(inbox)[j] = Tail(inbox)[i + 1] => i + 1 = j
                    BY <1>8, <5>2
                <5>4. ASSUME NEW j \in DOMAIN inbox', inbox'[j] = inbox'[i] PROVE i = j
                    <6>1. i + 1 = j + 1
                        BY <4>4, <5>3, <5>4
                    <6> QED BY <4>4, <6>1
                <5> QED BY <1>1, <1>7, <2>3, <5>3, <5>4 DEF GivenTo
            <4> QED BY <4>4, <4>7, <4>8
        <3> QED BY <3>1, <3>2
    <2>7. TypeOK'
        <3>1. DOMAIN errors' \subseteq asked'
            BY <1>1, <2>2, <2>3 DEF NbdInv, TypeOK
        <3>2. \A g \in DOMAIN errors' : errors'[g] \in 0 .. MaxErrors
            BY <2>3, MaxErrorsAssumption DEF NbdInv, TypeOK
        <3>3. url' \in BOOLEAN
            BY <2>1
        <3> QED BY <1>1, <2>1, <2>6, <3>1, <3>2, <3>3 DEF NbdInv, TypeOK
    <2> QED BY <1>1, <2>1, <2>4, <2>5, <2>6, <2>7 DEF NbdInv, Unasked, InStep
<1> QED BY <1>9, <1>10

\* The attempts of a request, with one more.
LEMMA CausesFacts ==
    ASSUME NbdInv, NEW h \in Handles, NEW o \in Outcomes,
           causes' = [causes EXCEPT ![h] = Append(@, o)]
    PROVE  /\ causes' \in [Handles -> Seq(Outcomes)]
           /\ \A g \in Handles : g # h => causes'[g] = causes[g]
           /\ Len(causes'[h]) = Len(causes[h]) + 1 /\ Len(causes[h]) \in Nat
           /\ DOMAIN causes'[h] = 1..(Len(causes[h]) + 1)
           /\ causes'[h][Len(causes[h]) + 1] = o
           /\ \A g \in Handles : \A i \in DOMAIN causes[g] :
                  i \in DOMAIN causes'[g] /\ causes'[g][i] = causes[g][i]
           /\ \A i \in 1..Len(causes[h]) : causes'[h][i] = causes[h][i]
<1>1. causes \in [Handles -> Seq(Outcomes)] /\ causes[h] \in Seq(Outcomes)
    BY DEF NbdInv, TypeOK
<1>2. /\ causes'[h] = Append(causes[h], o)
      /\ \A g \in Handles : g # h => causes'[g] = causes[g]
    BY <1>1
<1>3. /\ causes'[h] \in Seq(Outcomes)
      /\ Len(causes[h]) \in Nat /\ DOMAIN causes[h] = 1..Len(causes[h])
      /\ DOMAIN causes'[h] = 1..(Len(causes[h]) + 1)
      /\ Len(causes'[h]) = Len(causes[h]) + 1
      /\ \A i \in 1..Len(causes[h]) : causes'[h][i] = causes[h][i]
      /\ causes'[h][Len(causes[h]) + 1] = o
    BY <1>1, <1>2, AppendFacts
<1>4. causes' \in [Handles -> Seq(Outcomes)]
    BY <1>1, <1>2, <1>3
<1>5. ASSUME NEW g \in Handles, NEW i \in DOMAIN causes[g]
      PROVE  i \in DOMAIN causes'[g] /\ causes'[g][i] = causes[g][i]
    <2>1. CASE g = h
        BY <1>3, <2>1
    <2>2. CASE g # h
        BY <1>2, <2>2
    <2> QED BY <2>1, <2>2
<1> QED BY <1>2, <1>3, <1>4, <1>5

\* What does not depend on how the transfer ended.
LEMMA CompleteFrame ==
    ASSUME NbdInv, NEW h \in Handles, h \in DOMAIN errors, NEW o \in Outcomes,
           causes' = [causes EXCEPT ![h] = Append(@, o)],
           UNCHANGED <<user, asked, got, inbox, url>>,
           DOMAIN errors' \subseteq DOMAIN errors,
           \A g : GivenTo(g)' => GivenTo(g) \/ g = h
    PROVE  Waiting' /\ Unasked' /\ Framing'
<1>1. \A g \in Handles : g # h => causes'[g] = causes[g]
    BY CausesFacts
<1>2. h \in asked
    BY DEF NbdInv, TypeOK
<1>3. \A i \in DOMAIN inbox, g \in Handles : inbox[i] = [head |-> g] => g # h
    BY DEF NbdInv, Waiting
<1>4. Waiting'
    BY <1>1, <1>3 DEF NbdInv, Waiting
<1>5. Unasked'
    BY <1>1, <1>2 DEF NbdInv, Unasked
<1>6. Framing'
    BY DEF NbdInv, Framing
<1> QED BY <1>4, <1>5, <1>6

LEMMA RetryInv ==
    ASSUME NbdInv, NEW h \in Handles, NEW o \in Outcomes, Complete(h, o),
           ~(FromCurl(o) \/ GivesUp(h, o))
    PROVE  NbdInv'
<1>1. /\ h \in DOMAIN errors /\ server = "up"
      /\ causes' = [causes EXCEPT ![h] = Append(@, o)]
      /\ errors' = [errors EXCEPT ![h] = @ + 1]
      /\ UNCHANGED <<user, asked, got, inbox, url, outbox, server>>
    BY DEF Complete, Retry
<1>2. o = "failed" /\ errors[h] < MaxErrors /\ errors[h] \in Nat /\ errors[h] + 1 \in 0 .. MaxErrors
    <2>1. o = "failed" /\ ~(errors[h] >= MaxErrors)
        BY DEF FromCurl, GivesUp, Outcomes
    <2>2. errors[h] \in 0 .. MaxErrors
        BY <1>1 DEF NbdInv, TypeOK
    <2> QED BY <2>1, <2>2, MaxErrorsAssumption
<1>3. /\ DOMAIN errors' = DOMAIN errors /\ errors'[h] = errors[h] + 1
      /\ \A g \in DOMAIN errors : g # h => errors'[g] = errors[g]
    BY <1>1
<1>4. Given' = Given
    BY <1>1 DEF Given
<1>5. Waiting' /\ Unasked' /\ Framing'
    BY <1>1, <1>3, <1>4, CompleteFrame DEF GivenTo
<1>6. TypeOK'
    <2>1. causes' \in [Handles -> Seq(Outcomes)]
        BY <1>1, CausesFacts
    <2>2. \A g \in DOMAIN errors' : errors'[g] \in 0 .. MaxErrors
        BY <1>2, <1>3 DEF NbdInv, TypeOK
    <2> QED BY <1>1, <1>3, <2>1, <2>2 DEF NbdInv, TypeOK
<1>7. DOMAIN errors \subseteq Handles
    BY DEF NbdInv, TypeOK
<1>8. Trying'
    <2>1. ASSUME NEW g \in DOMAIN errors'
          PROVE  /\ Len(causes'[g]) = errors'[g]
                 /\ \A k \in DOMAIN causes'[g] : causes'[g][k] = "failed"
        <3>1. CASE g = h
            <4>1. /\ Len(causes'[h]) = Len(causes[h]) + 1 /\ Len(causes[h]) \in Nat
                  /\ DOMAIN causes'[h] = 1..(Len(causes[h]) + 1)
                  /\ causes'[h][Len(causes[h]) + 1] = o
                  /\ \A i \in 1..Len(causes[h]) : causes'[h][i] = causes[h][i]
                BY <1>1, CausesFacts
            <4>2. Len(causes[h]) = errors[h] /\ \A k \in DOMAIN causes[h] : causes[h][k] = "failed"
                BY <1>1 DEF NbdInv, Trying
            <4>3. DOMAIN causes[h] = 1..Len(causes[h])
                BY DEF NbdInv, TypeOK
            <4>4. \A k \in DOMAIN causes'[h] : causes'[h][k] = "failed"
                BY <1>2, <4>1, <4>2, <4>3
            <4> QED BY <1>3, <3>1, <4>1, <4>2, <4>4
        <3>2. CASE g # h
            <4>1. causes'[g] = causes[g] /\ errors'[g] = errors[g] /\ g \in DOMAIN errors
                BY <1>1, <1>3, <1>7, <3>2, CausesFacts
            <4> QED BY <4>1 DEF NbdInv, Trying
        <3> QED BY <3>1, <3>2
    <2> QED BY <1>3, <1>4, <2>1 DEF NbdInv, Trying, GivenTo
<1>9. AnswersHold'
    <2>1. \A i \in DOMAIN Given : Given[i].handle # h /\ Given[i].handle \in Handles
        BY <1>1 DEF NbdInv, Trying, GivenTo, AnswersHold, TypeOK
    <2>2. \A i \in DOMAIN Given : causes'[Given[i].handle] = causes[Given[i].handle]
        BY <1>1, <2>1, CausesFacts
    <2> QED BY <1>1, <1>3, <1>4, <2>2 DEF NbdInv, AnswersHold
<1>10. InStep'
    BY <1>1 DEF InStep
<1> QED BY <1>5, <1>6, <1>8, <1>9, <1>10 DEF NbdInv

\* A transfer that is over, with an answer or without one.
LEMMA EndInv ==
    ASSUME NbdInv, NEW h \in Handles, NEW o \in Outcomes, Complete(h, o),
           FromCurl(o) \/ GivesUp(h, o)
    PROVE  NbdInv'
<1>1. /\ h \in DOMAIN errors /\ server = "up"
      /\ causes' = [causes EXCEPT ![h] = Append(@, o)]
      /\ errors' = Without(errors, h)
      /\ IF h = Configure THEN FinishConfigure(o) ELSE FinishRead(h, o)
      /\ UNCHANGED <<user, asked, got, inbox, url>>
    BY DEF Complete
<1>2. /\ DOMAIN errors' = DOMAIN errors \ {h}
      /\ \A g \in DOMAIN errors' : errors'[g] = errors[g]
    BY <1>1 DEF Without
<1> DEFINE a == [handle |-> h, ok |-> o = "whole"]
\* The answers are as they were, or there is one more.
<1>3. /\ outbox' = outbox \/ outbox' = Append(outbox, a)
      /\ server' \in {"up", "refused", "aborted"}
      /\ server' = "aborted" => user = "closed" \/ (h # Configure /\ o = "short")
    <2>1. CASE h = Configure
        BY <1>1, <2>1 DEF FinishConfigure, Reply
    <2>2. CASE h # Configure
        BY <1>1, <2>2 DEF FinishRead, Reply
    <2> QED BY <2>1, <2>2
<1>4. a \in Answers /\ a.handle = h /\ (a.ok <=> o = "whole")
    BY DEF Answers
<1> HIDE DEF a
<1>5. got \in Seq(Answers) /\ outbox \in Seq(Answers) /\ outbox' \in Seq(Answers)
    <2>1. got \in Seq(Answers) /\ outbox \in Seq(Answers)
        BY DEF NbdInv, TypeOK
    <2>2. Append(outbox, a) \in Seq(Answers)
        BY <1>4, <2>1, AppendFacts
    <2> QED BY <1>3, <2>1, <2>2
<1>6. /\ Given \in Seq(Answers)
      /\ Given' = Given \/ Given' = Append(Given, a)
    <2>1. Given' = got \o outbox'
        BY <1>1 DEF Given
    <2>2. got \o Append(outbox, a) = Append(got \o outbox, a)
        BY <1>4, <1>5
    <2>3. got \o outbox \in Seq(Answers)
        BY <1>5
    <2>4. CASE outbox' = outbox
        BY <2>1, <2>3, <2>4 DEF Given
    <2>5. CASE outbox' = Append(outbox, a)
        BY <2>1, <2>2, <2>3, <2>5 DEF Given
    <2> QED BY <1>3, <2>4, <2>5
<1>7. /\ Len(Given) \in Nat /\ DOMAIN Given = 1..Len(Given)
      /\ DOMAIN Append(Given, a) = 1..(Len(Given) + 1)
      /\ \A i \in 1..Len(Given) : Append(Given, a)[i] = Given[i]
      /\ Append(Given, a)[Len(Given) + 1] = a
    BY <1>4, <1>6, AppendFacts
<1>8. ASSUME NEW i \in DOMAIN Given'
      PROVE  \/ i \in DOMAIN Given /\ Given'[i] = Given[i]
             \/ i = Len(Given) + 1 /\ Given'[i] = a
    BY <1>6, <1>7
<1>9. \A g : GivenTo(g)' => GivenTo(g) \/ g = h
    BY <1>4, <1>8 DEF GivenTo
<1>10. h \in asked /\ ~GivenTo(h) /\ errors[h] \in 0 .. MaxErrors
       /\ Len(causes[h]) = errors[h] /\ \A k \in DOMAIN causes[h] : causes[h][k] = "failed"
    BY <1>1 DEF NbdInv, TypeOK, Trying
<1>11. /\ causes' \in [Handles -> Seq(Outcomes)]
       /\ \A g \in Handles : g # h => causes'[g] = causes[g]
       /\ Len(causes'[h]) = errors[h] + 1
       /\ causes'[h][errors[h] + 1] = o
       /\ \A i \in 1..errors[h] : causes'[h][i] = "failed"
       /\ \A g \in Handles : \A i \in DOMAIN causes[g] :
              i \in DOMAIN causes'[g] /\ causes'[g][i] = causes[g][i]
       /\ errors[h] + 1 \in DOMAIN causes'[h]
    <2>1. DOMAIN causes[h] = 1..Len(causes[h])
        BY DEF NbdInv, TypeOK
    <2>2. /\ causes' \in [Handles -> Seq(Outcomes)]
          /\ \A g \in Handles : g # h => causes'[g] = causes[g]
          /\ \A g \in Handles : \A i \in DOMAIN causes[g] :
                 i \in DOMAIN causes'[g] /\ causes'[g][i] = causes[g][i]
        BY <1>1, CausesFacts
    <2>3. /\ Len(causes'[h]) = Len(causes[h]) + 1 /\ Len(causes[h]) \in Nat
          /\ DOMAIN causes'[h] = 1..(Len(causes[h]) + 1)
          /\ causes'[h][Len(causes[h]) + 1] = o
        BY <1>1, CausesFacts
    <2>4. \A i \in DOMAIN causes[h] : causes'[h][i] = "failed"
        BY <1>10, <2>2
    <2>5. Len(causes'[h]) = errors[h] + 1 /\ causes'[h][errors[h] + 1] = o
        BY <1>10, <2>3
    <2>6. errors[h] + 1 \in DOMAIN causes'[h]
        <3>1. errors[h] \in Nat
            BY <1>10
        <3>2. DOMAIN causes'[h] = 1..(errors[h] + 1)
            BY <1>10, <2>3
        <3> QED BY <3>1, <3>2
    <2>7. \A i \in 1..errors[h] : causes'[h][i] = "failed"
        <3>1. DOMAIN causes[h] = 1..errors[h]
            BY <1>10, <2>1
        <3> QED BY <2>4, <3>1
    <2> QED BY <2>2, <2>5, <2>6, <2>7
<1>12. Waiting' /\ Unasked' /\ Framing'
    BY <1>1, <1>2, <1>9, CompleteFrame
<1>13. TypeOK'
    BY <1>1, <1>2, <1>3, <1>5, <1>11 DEF NbdInv, TypeOK
<1>14. Trying'
    <2>1. ASSUME NEW g \in DOMAIN errors'
          PROVE  g \in DOMAIN errors /\ g \in Handles /\ g # h
        BY <1>2 DEF NbdInv, TypeOK
    <2> QED BY <1>2, <1>9, <1>11, <2>1 DEF NbdInv, Trying
<1>15. o = "failed" => errors[h] = MaxErrors
    BY <1>10, MaxErrorsAssumption DEF FromCurl, GivesUp
<1>16. AnswersHold'
    <2>1. \A i \in DOMAIN Given : Given[i].handle # h /\ Given[i].handle \in Handles
        BY <1>10 DEF NbdInv, GivenTo, AnswersHold, TypeOK
    <2>2. \A i, j \in DOMAIN Given' : Given'[i].handle = Given'[j].handle => i = j
        BY <1>4, <1>8, <2>1 DEF NbdInv, AnswersHold
    <2>3. ASSUME NEW i \in DOMAIN Given'
          PROVE  LET g == Given'[i].handle
                     tries == causes'[g]
                     last == tries[Len(tries)] IN
                 /\ g \in asked' \ DOMAIN errors'
                 /\ Given'[i].ok <=> last = "whole"
                 /\ last = "failed" => Len(tries) = MaxErrors + 1
                 /\ \A k \in 1 .. Len(tries) - 1 : tries[k] = "failed"
        <3>1. CASE i \in DOMAIN Given /\ Given'[i] = Given[i]
            <4>1. causes'[Given[i].handle] = causes[Given[i].handle]
                BY <1>11, <2>1, <3>1
            <4> QED BY <1>1, <1>2, <3>1, <4>1 DEF NbdInv, AnswersHold
        <3>2. CASE Given'[i] = a
            <4>1. Given'[i].handle = h /\ (Given'[i].ok <=> o = "whole")
                BY <1>4, <3>2
            <4>2. h \in asked' \ DOMAIN errors'
                BY <1>1, <1>2, <1>10
            <4>3. (errors[h] + 1) - 1 = errors[h]
                BY <1>10
            <4> QED BY <1>11, <1>15, <4>1, <4>2, <4>3
        <3> QED BY <1>8, <3>1, <3>2
    <2> QED BY <2>2, <2>3 DEF AnswersHold
<1>17. InStep'
    <2>1. CASE server' = "aborted" /\ h # Configure /\ o = "short"
        BY <1>11, <2>1 DEF InStep, Handles
    <2>2. CASE server' # "aborted" \/ user = "closed"
        BY <1>1, <2>2 DEF InStep
    <2> QED BY <1>3, <2>1, <2>2
<1> QED BY <1>12, <1>13, <1>14, <1>16, <1>17 DEF NbdInv

----------------------------------------------------------------------------
(* The theorems. *)

LEMMA NbdNext == NbdInv /\ [Next]_vars => NbdInv'
<1> SUFFICES ASSUME NbdInv, [Next]_vars PROVE NbdInv'
    OBVIOUS
<1>1. CASE HandOver \/ SeeDisconnect \/ Done \/ UNCHANGED vars
    <2>1. /\ UNCHANGED <<asked, got, inbox, url, errors, outbox, causes>>
          /\ user' \in {user, "kernel"} /\ server' \in {server, "exited"}
          /\ user = "closed" => user' = "closed"
        BY <1>1 DEF HandOver, SeeDisconnect, Done, vars, serverVars
    <2>2. Given' = Given
        BY <2>1 DEF Given
    <2> QED BY <2>1, <2>2 DEF NbdInv, TypeOK, Waiting, Trying, Unasked, AnswersHold, Framing, InStep,
                              GivenTo
<1>2. ASSUME NEW h \in Handles, Completes(h) PROVE NbdInv'
    <2>1. PICK o \in Outcomes : Complete(h, o)
        BY <1>2 DEF Completes
    <2> QED BY <2>1, EndInv, RetryInv
<1> QED BY <1>1, <1>2, ConfiguringInv, ReadInv, ReceiveInv, HangUpInv, DieInv, TakeInv DEF Next, Server

LEMMA NbdInvariant == Spec => []NbdInv
BY NbdInit, NbdNext, PTL DEF Spec

\* For any number of overlapping requests and of retries, no request is answered twice, or with
\* data it did not get, or given up early (r_nbd_run_server).
THEOREM AnswersAreTrue == Spec => []AnswersHold
<1>1. NbdInv => AnswersHold
    BY DEF NbdInv
<1> QED BY <1>1, NbdInvariant, PTL

\* Client and server never lose step on the socket (start_configure).
THEOREM StaysInStep == Spec => []InStep
<1>1. NbdInv => InStep
    BY DEF NbdInv
<1> QED BY <1>1, NbdInvariant, PTL
=============================================================================
