------------------------------ MODULE MCLimits ------------------------------
(* What the operator may write, for TLC. *)
EXTENDS Limits

Unset == [form |-> "unset", secs |-> 0]
Unreadable == [form |-> "unreadable", secs |-> 0]
Duration(d) == [form |-> "duration", secs |-> d]
Size(num, unit) == [form |-> "number", num |-> num, unit |-> unit]
UnsetSize == [form |-> "unset", num |-> 0, unit |-> ""]
UnreadableSize == [UnsetSize EXCEPT !.form = "unreadable"]

Defaults == [read |-> Unset, write |-> Unset, submit |-> Unset, get |-> Unset,
             s3 |-> Unset, s3Flag |-> Unset, size |-> UnsetSize,
             available |-> TRUE, metrics |-> FALSE]

\* every relation of the timeouts to one another and to Stop's 5 and 10 seconds
Grid ==
    {[Defaults EXCEPT
          !.read = Duration(r), !.write = Duration(w), !.submit = Duration(p),
          !.get = Duration(g), !.s3 = Duration(f), !.available = a,
          !.metrics = TRUE]:
     r \in {1, 3}, w \in {0, 4, 8}, p \in {-1, 1, 3}, g \in {-1, 2, 4},
     f \in {-1, 1, 9, 10}, a \in BOOLEAN}

Quick == [Defaults EXCEPT
              !.read = Duration(1), !.write = Duration(8),
              !.submit = Duration(2), !.get = Duration(1), !.s3 = Duration(1)]

\* sizes that fit, that wrap to each side, and that do not parse
SizeSettings ==
    {[Quick EXCEPT !.size = Size(n, u)]:
         n \in {-513, -9, -1, 0, 1, 2, 8, 16, 17, 512},
         u \in {"", "B", "KB", "MB", "GB"}}
    \cup {[Quick EXCEPT !.size = UnreadableSize]}

\* texts that are left out, zero, unreadable, replaced, or capped
TextSettings ==
    {[Quick EXCEPT !.s3 = Unreadable], [Quick EXCEPT !.s3 = Duration(0)],
     [Quick EXCEPT !.s3 = Unset],
     [Quick EXCEPT !.s3 = Unreadable, !.s3Flag = Duration(2)],
     [Quick EXCEPT !.s3Flag = Duration(0)],
     [Quick EXCEPT !.submit = Duration(0)], [Quick EXCEPT !.read = Duration(-1)],
     [Quick EXCEPT !.get = Duration(90), !.write = Duration(70)],
     [Quick EXCEPT !.get = Duration(0), !.write = Duration(40)],
     [Quick EXCEPT !.read = Unreadable], [Quick EXCEPT !.write = Unreadable],
     [Quick EXCEPT !.submit = Unreadable], [Quick EXCEPT !.get = Unreadable],
     Defaults}

MCSettings == Grid \cup SizeSettings \cup TextSettings
=============================================================================
