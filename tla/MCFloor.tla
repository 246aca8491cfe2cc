-------------------------------- MODULE MCFloor --------------------------------
(* The two layouts of data/ (blanks at the end of a line left out), a small  *)
(* one with fewer shelves than items, and the items of data/inventory.json,  *)
(* each with its quantity and weight.                                        *)
EXTENDS Floor

\* A line of a layout file, character by character.
Chars(s) == [i \in 1..Len(s) |-> SubSeq(s, i, i)]
File(lines) == [i \in 1..Len(lines) |-> Chars(lines[i])]
Repeat(s, n) == FoldLeft(LAMBDA a, i : a \o s, "", [i \in 1..n |-> i])

Aisles == "XZSZSZSZSZSZX"
Bay == "XZSZSZSZSZSZL"
Maze0 == File(<<"XXXXXXXXXXXXX", "XZZZ ZZZ ZZZX">>
              \o <<Aisles, Aisles, Aisles, Aisles, Aisles, Bay, Bay, Bay, Bay>>
              \o <<Aisles, Aisles, Aisles, Aisles, Aisles, Aisles, Aisles>>
              \o <<"XZ ZZZ ZZZ ZX", "XB       EZZX", "XXXXXXXXXXHHX", "">>)

Z(n) == Repeat("Z", n)
S(n) == Repeat("S", n)
Maze3 == File(<<"X" \o Repeat("X", 38), "E" \o Z(37) \o "X",
                "X " \o S(35) \o "ZX", "X" \o Z(37) \o "X",
                "XZ" \o S(36) \o "L", "X" \o Z(37) \o "L",
                "X " \o S(35) \o "ZL", "X" \o Z(37) \o "L",
                "XZ" \o S(36) \o "L", "X" \o Z(37) \o "X",
                "X " \o S(35) \o "ZX", "B" \o Z(37) \o "X",
                "X" \o Repeat("X", 38)>>)

TwoShelves == File(<<"XXXXX", "XBZEX", "XXSSX", "XXXXX">>)

MCFiles == {Maze0, Maze3, TwoShelves}

\* What ReadsAreInside needs of a layout holds of these.
ASSUME FencesAssumption == \A file \in MCFiles : Fenced(Layout(file))

I(name, qty, weight) == [name |-> name, qty |-> qty, weight |-> weight]

MCStock == <<I("Hairdryer", 11, 10), I("Basketball", 10, 5), I("Sunscreen", 8, 3),
  I("Laptop", 13, 50), I("Dog", 15, 6), I("Lego", 10, 10), I("Switch", 10, 10),
  I("Umbrella", 50, 15), I("Socks", 20, 2), I("Hat", 18, 5), I("Racquet", 8, 20),
  I("Cat", 10, 6), I("Xbox", 20, 20), I("Sweater", 50, 5), I("USB", 9, 1),
  I("Book", 13, 8), I("Lamp", 11, 15), I("Glove", 12, 9), I("Drone", 10, 10),
  I("Clock", 14, 4), I("Pillow", 18, 1), I("Coffee", 20, 5), I("Pencil", 100, 1),
  I("Paper", 50, 2), I("Camera", 25, 15), I("Keyboard", 7, 10), I("Mouse", 9, 7),
  I("Tissues", 10, 1), I("Lightbulb", 15, 3), I("Playdoh", 8, 6)>>

\* Two items of one order, in the order in which the robot passes them or not;
\* all there is; more than there is; an item on the second row of shelves.
MCOrders == {<<I("Hairdryer", 2, 10), I("Racquet", 1, 20)>>,
             <<I("Racquet", 8, 20), I("Hairdryer", 11, 10)>>,
             <<I("Sunscreen", 9, 3), I("Laptop", 3, 50)>>,
             <<I("Pillow", 1, 1), I("Basketball", 10, 5)>>,
             <<I("Dog", 4, 6)>>}
MCOddRow == {<<I("Lego", 1, 10)>>}
================================================================================
