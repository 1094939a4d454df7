------------------------------ MODULE Programs ------------------------------
(***************************************************************************)
(* GRC graphs of Esterel programs, as the compiler of this repository      *)
(* builds them (cec-strlxml | cec-expandmodule | cec-dismantle |           *)
(* cec-astgrc, then cec-grcopt where it says so).  Those with a file name  *)
(* are tests of the repository.  The numbers follow the order of the       *)
(* search that GRCsim makes; nodes before the root are dead code.          *)
(***************************************************************************)
EXTENDS GRCNodes

(* Suspension, two traps of which one has a handler, a signal that one of  *)
(* two threads emits and the other reads.  Optimized.                      *)
(*   suspend loop                                                          *)
(*     trap T, U in                                                        *)
(*       [ await A; emit R; present O then exit U end; pause               *)
(*       || pause; present R then emit O end; pause;                       *)
(*          present R then emit P; exit T end ]                            *)
(*     handle T do emit Q end trap; pause                                  *)
(*   end loop when S                                                       *)
MixGraph ==
  <<Sw(1, <<13, 2>>), De("Q", 3), De("P", 4), De("O", 5), En(2, 6), En(5, 7),
    Fo(12, <<10, 8>>), En(14, 9), Tm(1, 1, 12), En(9, 11), Tm(1, 0, 12),
    Sy(5, <<0, 60, 0>>, {9, 11}), De("R_1", 14), En(2, 15),
    Te("load", {"S"}, <<17, 16>>, {}), Pa(60), Sw(3, <<53, 22, 18>>), En(15, 19),
    Fo(21, <<20>>), Tm(0, 0, 21), Sy(15, <<52, 0, 0>>, {20}), En(5, 23),
    Fo(45, <<25, 24>>), Sw(11, <<36, 32, 28>>), Sw(6, <<43, 43, 26>>),
    Te("load", {"A"}, <<41, 27>>, {}), Em("R_1", 38),
    Te("load", {"R_1"}, <<30, 29>>, {13, 27}), Em("O", 30), En(13, 31),
    Tm(1, 1, 45), Te("load", {"R_1"}, <<36, 33>>, {13, 27}), Em("P", 34),
    Ex("T_2", 35), Tm(2, 1, 45), En(12, 37), Tm(0, 1, 45),
    Te("load", {"O"}, <<40, 39>>, {4, 29}), Tm(2, 0, 45), En(8, 42), En(9, 42),
    Tm(1, 0, 45), En(7, 44), Tm(0, 0, 45),
    Sy(5, <<52, 60, 46>>, {31, 35, 37, 39, 42, 44}), En(15, 47), Fo(51, <<48>>),
    Te("load", {"T_2"}, <<50, 49>>, {34}), Em("Q", 50), Tm(0, 0, 51),
    Sy(15, <<52, 0, 0>>, {50}), En(4, 60), En(5, 54), Fo(59, <<57, 55>>), En(14, 56),
    Tm(1, 1, 59), En(9, 58), Tm(1, 0, 59), Sy(5, <<0, 60, 0>>, {56, 58}),
    Tm(1, 0, 61), Quit >>
MixTree ==
  <<Excl(0, <<2, 17>>), Ref(1, <<3>>), Excl(2, <<4, 5, 15>>), Leaf(3, FALSE),
    Par(3, <<6, 11>>), Excl(5, <<7, 8, 9>>), Leaf(6, TRUE), Leaf(6, FALSE),
    Ref(6, <<10>>), Leaf(9, FALSE), Excl(5, <<12, 13, 14>>), Leaf(11, TRUE),
    Leaf(11, FALSE), Leaf(11, FALSE), Par(3, <<16>>), Leaf(15, TRUE), Leaf(1, FALSE) >>
MixRoot == 1
MixInput == {"S", "A"}
MixOutput == {"O", "P", "Q"}
MixSignal == {"S", "A", "O", "P", "Q", "R_1", "T_2"}

(* Three threads, two that talk through R and O, a trap with a handler,    *)
(* a loop, and an abort that ends the program.  Optimized.                 *)
(*   abort loop pause;                                                     *)
(*     trap T in                                                           *)
(*       [ suspend pause when A; emit R; present O then exit T end; pause  *)
(*       || pause; present R then emit O end; pause                        *)
(*       || pause; present A then emit P; exit T end ]                     *)
(*     handle T do emit Q end trap                                         *)
(*   end loop when B                                                       *)
LinkGraph ==
  <<Sw(1, <<51, 7, 2>>), De("Q", 3), De("P", 4), De("O", 5), En(3, 6), En(18, 50),
    De("R_1", 8), Te("load", {"B"}, <<10, 9>>, {}), Tm(0, 0, 51), En(3, 11),
    Sw(4, <<21, 12>>), En(5, 13), Fo(20, <<18, 16, 14>>), En(17, 15), Tm(1, 2, 20),
    En(14, 17), Tm(1, 1, 20), En(9, 19), Tm(1, 0, 20),
    Sy(5, <<0, 50, 0>>, {15, 17, 19}), En(5, 22), Fo(47, <<32, 29, 23>>),
    Sw(15, <<27, 24>>), Te("load", {"A"}, <<27, 25>>, {}), Em("P", 26),
    Tm(2, 2, 47), En(16, 28), Tm(0, 2, 47), Sw(11, <<30, 30, 37>>), En(12, 31),
    Tm(0, 1, 47), Sw(6, <<45, 45, 33>>), En(9, 34),
    Te("load", {"A"}, <<36, 35>>, {}), Pa(44), Em("R_1", 41),
    Te("load", {"R_1"}, <<39, 38>>, {7, 36}), Em("O", 39), En(13, 40),
    Tm(1, 1, 47), Te("load", {"O"}, <<43, 42>>, {4, 38}), Tm(2, 0, 47), En(8, 44),
    Tm(1, 0, 47), En(7, 46), Tm(0, 0, 47),
    Sy(5, <<49, 50, 48>>, {26, 28, 31, 40, 42, 44, 46}), Em("Q", 49), En(18, 50),
    Tm(1, 0, 52), En(2, 52), Quit >>
LinkTree ==
  <<Excl(0, <<2, 3, 19>>), Leaf(1, TRUE), Ref(1, <<4>>), Excl(3, <<5, 18>>),
    Par(4, <<6, 11, 15>>), Excl(5, <<7, 8, 9>>), Leaf(6, TRUE), Leaf(6, FALSE),
    Ref(6, <<10>>), Leaf(9, FALSE), Excl(5, <<12, 13, 14>>), Leaf(11, TRUE),
    Leaf(11, FALSE), Leaf(11, FALSE), Excl(5, <<16, 17>>), Leaf(15, TRUE),
    Leaf(15, FALSE), Leaf(4, FALSE), Leaf(1, FALSE) >>
LinkRoot == 1
LinkInput == {"A", "B"}
LinkSignal == {"A", "B", "O", "P", "Q", "R_1"}
LinkOutput == {"O", "P", "Q"}

(* tests/test-3vsim3.strl, optimized.                                      *)
TriGraph ==
  <<Sw(1, <<28, 21, 2>>), De("G", 3), De("F", 4), De("E", 5),
    Te("load", {"A"}, <<27, 6>>, {}), En(3, 7), Fo(20, <<14, 8, 16>>),
    Te("load", {"C"}, <<9, 11>>, {}), Te("load", {"D"}, <<13, 10>>, {}),
    Em("G", 11), Em("E", 12), Tm(0, 1, 20), Tm(2, 1, 20),
    Te("load", {"B"}, <<15, 19>>, {}), Em("E", 19),
    Te("load", {"E"}, <<17, 18>>, {4, 11, 15}), Em("F", 18), Tm(0, 2, 20),
    Tm(0, 0, 20), Sy(3, <<27, 0, 27>>, {12, 13, 18, 19}), En(3, 22),
    Fo(26, <<25, 24, 23>>), Tm(0, 2, 26), Tm(0, 1, 26), Tm(0, 0, 26),
    Sy(3, <<27, 0, 0>>, {23, 24, 25}), Tm(0, 0, 28), En(2, 29), Quit >>
TriTree ==
  <<Excl(0, <<2, 3, 7>>), Leaf(1, TRUE), Par(1, <<4, 5, 6>>), Leaf(3, TRUE),
    Leaf(3, TRUE), Leaf(3, TRUE), Leaf(1, FALSE) >>
TriRoot == 1
TriInput == {"A", "B", "C", "D"}
TriSignal == {"A", "B", "C", "D", "E", "F", "G"}

(* tests/test-trap13.strl, as cec-astgrc writes it.                        *)
Trap13Graph ==
  <<En(13, 2), Tm(2, 1, 25), En(13, 4), Tm(0, 1, 25), Ex("T", 6), En(7, 7),
    Tm(2, 0, 25), Tm(2, 1, 43), En(10, 24), En(7, 11), Tm(0, 0, 25),
    Sw(1, <<47, 27, 13>>), De("A", 14), En(3, 15), De("T", 16), En(4, 17),
    En(5, 18), Fo(25, <<22, 19>>), En(14, 20), En(15, 21), Tm(1, 1, 25), En(8, 23),
    En(11, 24), Tm(1, 0, 25), Sy(5, <<46, 45, 26>>, {2, 4, 7, 11, 21, 24}),
    Em("A", 46), Sw(3, <<28, 46>>), En(5, 29), Fo(43, <<35, 30>>), Sw(12, <<33, 31>>),
    En(15, 32), Tm(1, 1, 43), En(13, 34), Tm(0, 1, 43), Sw(6, <<41, 36>>),
    Sw(8, <<41, 39, 37>>), En(10, 38), Tm(1, 0, 43), Ex("T_1", 40), Tm(2, 0, 43),
    En(7, 42), Tm(0, 0, 43), Sy(5, <<46, 45, 44>>, {8, 32, 34, 38, 40, 42}),
    Em("A", 46), Tm(1, 0, 48), Tm(0, 0, 47), En(2, 48), Quit >>
Trap13Tree ==
  <<Excl(0, <<2, 3, 17>>), Leaf(1, TRUE), Excl(1, <<4, 16>>), Ref(3, <<5>>),
    Par(4, <<6, 12>>), Excl(5, <<7, 8>>), Leaf(6, TRUE), Excl(6, <<9, 10, 11>>),
    Ref(8, <<>>), Leaf(8, FALSE), Leaf(8, FALSE), Excl(5, <<13, 14>>),
    Leaf(12, TRUE), Ref(12, <<15>>), Leaf(14, FALSE), Ref(3, <<>>), Leaf(1, FALSE) >>
Trap13Root == 12
Trap13Input == {}
Trap13Signal == {"A", "T", "T_1"}

(* Three threads in a ring, each of which tests a signal that another      *)
(* emits: the data arcs form a cycle.  Optimized.                          *)
RingGraph ==
  <<Sw(1, <<35, 28, 2>>), De("C", 3), De("B", 4), De("Z", 5), De("Y", 6),
    De("X", 7), En(3, 8), Fo(27, <<9, 11, 13>>),
    Te("load", {"X"}, <<23, 10>>, {6, 15}), Em("Y", 24),
    Te("load", {"Y"}, <<19, 12>>, {5, 10}), Em("Z", 20),
    Te("load", {"Z"}, <<16, 14>>, {4, 12}), Te("load", {"A"}, <<16, 15>>, {}),
    Em("X", 16), Te("load", {"Y"}, <<18, 17>>, {5, 10}), Em("B", 18), Tm(0, 2, 27),
    Em("C", 20), Te("load", {"X"}, <<22, 21>>, {6, 15}), Em("C", 22), Tm(0, 1, 27),
    Em("B", 24), Te("load", {"Z"}, <<26, 25>>, {4, 12}), Em("B", 26), Tm(0, 0, 27),
    Sy(3, <<34, 0>>, {18, 22, 26}), En(3, 29), Fo(33, <<32, 31, 30>>), Tm(0, 2, 33),
    Tm(0, 1, 33), Tm(0, 0, 33), Sy(3, <<34, 0>>, {30, 31, 32}), Tm(0, 0, 35),
    En(2, 36), Quit >>
RingTree ==
  <<Excl(0, <<2, 3, 7>>), Leaf(1, TRUE), Par(1, <<4, 5, 6>>), Leaf(3, TRUE),
    Leaf(3, TRUE), Leaf(3, TRUE), Leaf(1, FALSE) >>
RingRoot == 1
RingInput == {"A"}
RingSignal == {"A", "B", "C", "X", "Y", "Z"}

(* tests/test-suspend1.strl, optimized.                                    *)
SuspGraph ==
  <<Sw(1, <<22, 20, 10, 2>>), De("F", 3), De("E", 4), De("D", 5), De("C", 6),
    De("B", 7), En(4, 8), Em("B", 9), En(7, 19), En(4, 11),
    Te("load", {"A"}, <<13, 12>>, {}), Pa(19), Sw(5, <<16, 14>>), Em("C", 15),
    En(6, 19), Em("D", 17), Em("E", 18), En(3, 19), Tm(1, 0, 23), Em("F", 21),
    Tm(0, 0, 22), En(2, 23), Quit >>
SuspTree ==
  <<Excl(0, <<2, 3, 4, 8>>), Leaf(1, TRUE), Leaf(1, FALSE), Ref(1, <<5>>),
    Excl(4, <<6, 7>>), Leaf(5, FALSE), Leaf(5, FALSE), Leaf(1, FALSE) >>
SuspRoot == 1
SuspInput == {"A"}
SuspSignal == {"A", "B", "C", "D", "E", "F"}

=============================================================================
