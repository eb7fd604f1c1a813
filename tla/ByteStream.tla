----------------------------- MODULE ByteStream -----------------------------
(* What a pipe promises to the processes that share it: bytes come out in   *)
(* the order they went in, each once; a reader is told that the stream has   *)
(* ended only when it is empty and nobody can write to it any more; a call   *)
(* fails only for a process that is killed or a pipe without readers.        *)
EXTENDS Naturals, Sequences

CONSTANTS
  Proc,        \* processes
  Byte,        \* the values of a byte
  Capacity     \* the bytes the pipe holds

VARIABLES
  stream,      \* bytes written and not yet read
  ends,        \* the ends of the pipe each process has open: "r", "w"
  killed,      \* processes that have been killed
  got,         \* the byte delivered last
  ret          \* what the last read() or write() of each process returned

vars == <<stream, ends, killed, got, ret>>

Open(e) == \E p \in Proc : e \in ends[p]

Init ==
  /\ stream = <<>>
  /\ ends = [p \in Proc |-> {}]
  /\ killed = [p \in Proc |-> FALSE]
  /\ got \in Byte
  /\ ret = [p \in Proc |-> "ok"]

Put(p, b) ==
  /\ "w" \in ends[p] /\ Len(stream) < Capacity
  /\ stream' = Append(stream, b)
  /\ UNCHANGED <<ends, killed, got, ret>>

Get(p) ==
  /\ "r" \in ends[p] /\ stream # <<>>
  /\ got' = Head(stream)
  /\ stream' = Tail(stream)
  /\ UNCHANGED <<ends, killed, ret>>

\* A call begins, returns normally, at the end of the stream, or fails.
Return(p, r) ==
  /\ ends[p] # {}
  /\ r = "eof" => stream = <<>> /\ ~Open("w")
  /\ r = "failed" => killed[p] \/ ~Open("r")
  /\ ret' = [ret EXCEPT ![p] = r]
  /\ UNCHANGED <<stream, ends, killed, got>>

\* The first process opens both ends; the others inherit what their parent has open.
Create(p) ==
  /\ ~Open("r") /\ ~Open("w") /\ stream = <<>>
  /\ ends' = [ends EXCEPT ![p] = {"r", "w"}]
  /\ UNCHANGED <<stream, killed, got, ret>>

Inherit(p, q) ==
  /\ ends[p] # {} /\ ends[q] = {}
  /\ ends' = [ends EXCEPT ![q] = ends[p]]
  /\ UNCHANGED <<stream, killed, got, ret>>

Close(p, e) ==
  /\ e \in ends[p]
  /\ ends' = [ends EXCEPT ![p] = @ \ {e}]
  /\ UNCHANGED <<stream, killed, got, ret>>

\* Bytes that nobody can read any more go with the pipe.
Discard ==
  /\ ~Open("r") /\ ~Open("w")
  /\ stream' = <<>>
  /\ UNCHANGED <<ends, killed, got, ret>>

SetKilled(p, k) ==
  /\ killed' = [killed EXCEPT ![p] = k]
  /\ UNCHANGED <<stream, ends, got, ret>>

Next ==
  \/ \E p \in Proc :
       \/ \E b \in Byte : Put(p, b)
       \/ Get(p)
       \/ \E r \in {"ok", "eof", "failed"} : Return(p, r)
       \/ Create(p)
       \/ \E q \in Proc : Inherit(p, q)
       \/ \E e \in {"r", "w"} : Close(p, e)
       \/ \E k \in BOOLEAN : SetKilled(p, k)
  \/ Discard

Spec == Init /\ [][Next]_vars
=============================================================================
