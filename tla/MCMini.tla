------------------------------- MODULE MCMini -------------------------------
\* Mini for TLC: consoles of five blocks of three pages, a boot2 of five pages
\* (two of them content) whose copies take two blocks each, and three ELF images.
EXTENDS Mini

NewMap == [signature |-> TRUE, generation |-> 2, blocks |-> {1, 3, 4, 5}]
OldMap == [signature |-> TRUE, generation |-> 1, blocks |-> 1..5]
Erased == [signature |-> FALSE, generation |-> 3, blocks |-> {}]
Three(m) == <<m, m, m>>
None == Three(Erased)

\* Block 2 went bad after the old map was written.
Sound == [map |-> <<Three(NewMap), None, Three(OldMap), Three(NewMap), None>>,
          good |-> {1, 3, 4, 5}, bad |-> {}, data_offset |-> 3, size |-> 2, matches |-> 1,
          console |-> "wii"]
All(m) == [b \in 1..5 |-> Three(m)]
Lists(S) == All([NewMap EXCEPT !.blocks = S])
GameCube == [Sound EXCEPT !.console = "gc"]
MCFlashes ==
  {Sound,
   \* The only copy of the new map is damaged in one of its three places.
   [Sound EXCEPT !.map = <<Three(OldMap), <<Erased, NewMap, NewMap>>, Three(OldMap), None, None>>,
                 !.console = "wiiu"],
   \* No valid map; copy 0 unreadable.
   [Sound EXCEPT !.map = <<None, <<OldMap, Erased, NewMap>>, None, None, None>>],
   [Sound EXCEPT !.good = 1..5, !.map = All(OldMap), !.bad = {7}],
   \* What a GameCube disc's menu finds: copy 1, a title that is there twice, neither copy
   \* readable, nothing stored, no block or too few of them listed.
   [GameCube EXCEPT !.good = 1..5, !.map = All(OldMap), !.bad = {7}],
   [GameCube EXCEPT !.matches = 2],
   [GameCube EXCEPT !.bad = {3, 15}],
   [GameCube EXCEPT !.good = {}],
   [GameCube EXCEPT !.good = {}, !.map = Lists({})],
   [GameCube EXCEPT !.good = {1}, !.map = Lists({1})]}

Elf(n, e, s) == [name |-> n, ident |-> TRUE, entry |-> e, phoff |-> TRUE, fits |-> TRUE, segs |-> s]
Seg(l, a, f, m) == [load |-> l, at |-> a, file |-> f, mem |-> m]
Two     == Elf("two", 0, <<Seg(TRUE, 0, 1, 1), Seg(FALSE, 3, 1, 1), Seg(TRUE, 9, 1, 2)>>)
Outside == Elf("outside", 1, <<Seg(TRUE, 0, 1, 1), Seg(TRUE, 11, 3, 3)>>)
Over    == Elf("over", 8, <<Seg(TRUE, 8, 2, 2)>>)
MCElfs   == {Two, Outside, Over}
MCImages == {Two, Outside}
MCUploads == [what : {Image(Two)}, size : {0, 1, 3}] \cup
             [what : {ArmImage, <<"noise">>}, size : {1}]
=============================================================================
