------------------------------- MODULE MCArm -------------------------------
(* Instances of the interpreter with bytes of two bits: a word has eight   *)
(* bits and still four bytes and two halves.                               *)
EXTENDS ArmManual, TLC

MCMapped == 64 .. 79
Memory == [a \in MCMapped |-> (3 * a + a \div 4) % ByteSize]

I(code, rn, rd, hi, mid, rm) == Insn(code, rn, rd, hi, mid, rm)
If(cond, i) == [i EXCEPT !.cond = cond]

\* Registers that hold their numbers, but for those that r gives.
Given(r) == [k \in 0 .. 15 |-> IF k \in DOMAIN r THEN r[k] ELSE k]
State(r) == NewState(Given(r), 32, Memory)
Thumb(s) == [s EXCEPT !.TFlag = 1]
WithFlags(s, n, z, c, v) == [s EXCEPT !.NFlag = n, !.ZFlag = z, !.CFlag = c, !.VFlag = v]
WithCarry(s, c) == [s EXCEPT !.CFlag = c]
WithUser(s) == [s EXCEPT !.RegBank[0][13] = 113, !.RegBank[0][14] = 114]
User(s) == [s EXCEPT !.Mode = 16, !.CpsrMode = 16, !.Bank = 0]
Alone(states) == {<<s>> : s \in states}

Numbers == {0, 1, 63, 127, 128, 192, 255}
Few == {0, 1, 128, 255, 149, 106}
Scene(states, arm, thumb, n, k) ==
  [states |-> states, arm |-> arm, thumb |-> thumb, steps |-> n, switches |-> k]

----------------------------------------------------------------------------
(* Data processing.                                                        *)
ShiftedMoves ==
  {I(code, 0, 1, n \div 2, (n % 2) * 8 + 2 * k, 2) : code \in {26, 27}, n \in 0 .. 7, k \in 0 .. 3}
    \cup {I(code, 0, 1, 3, 2 * k + 1, 2) : code \in {26, 27}, k \in 0 .. 3}
Shifter ==
  Scene(Alone({WithCarry(State(2 :> x @@ 3 :> n), c) :
                 x \in Few, n \in {0, 1, 7, 8, 9, 15, 16, 63}, c \in {0, 1}}),
        ShiftedMoves, {}, 1, 0)

Untested == {16, 18, 20, 22}
TwoRegisters ==
  Scene(Alone({WithCarry(State(1 :> x @@ 2 :> y), c) : x, y \in Numbers, c \in {0, 1}}),
        {I(code, 1, 3, 0, 0, 2) : code \in (0 .. 31) \ Untested}, {}, 1, 0)
Immediates ==
  Scene(Alone({WithCarry(State(1 :> x), c) : x \in Numbers, c \in {0, 1}}),
        {I(code, 1, 3, hi, 0, imm) : code \in 32 .. 63, hi \in 0 .. 3, imm \in {0, 1, 3}}, {}, 1, 0)
Products ==
  Scene(Alone({State(1 :> x @@ 2 :> y @@ 3 :> a[1] @@ 4 :> a[2]) :
                 x, y \in {0, 1, 15, 16, 127, 128, 255}, a \in {<<0, 0>>, <<255, 255>>, <<1, 128>>}}),
        {I(code, 3, 4, 2, 9, 1) : code \in {0, 1, 2, 3, 4} \cup 8 .. 15}
          \cup {I(9, 15, 4, 2, 9, 1), I(15, 3, 4, 2, 11, 1)}, {}, 1, 0)
Saturations ==
  Scene(Alone({State(1 :> x @@ 2 :> y @@ 4 :> a) :
                 x, y \in {0, 64, 127, 128, 136, 255}, a \in {0, 127, 128}}),
        {I(code, 2, 3, 0, 5, 1) : code \in Untested}
          \cup {I(code, 3, rd, 2, mid, 1) : code \in Untested, mid \in {8, 10, 12, 14}, rd \in {0, 4}}
          \cup {I(22, 15, 3, 15, 1, 1)}, {}, 1, 0)

----------------------------------------------------------------------------
(* Media instructions.                                                     *)
Lanes ==
  Scene(Alone({[State(1 :> x @@ 2 :> y) EXCEPT !.GEFlag = g] :
                 x, y \in {0, 27, 90, 128, 147, 255}, g \in {{}, {2, 3}}}),
        {I(code, 1, 3, 15, mid, 2) : code \in 97 .. 104, mid \in {1, 3, 5, 7, 9, 11, 15}}, {}, 1, 0)
Packing ==
  Scene(Alone({State(1 :> x @@ 2 :> y) : x, y \in {0, 27, 147, 255}}),
        {I(104, 1, 3, hi, mid, 2) : hi \in {0, 3}, mid \in {1, 9, 5, 13}}
          \cup {I(code, rn, 3, hi, 7, 2) : code \in {106, 107, 108, 110, 111}, rn \in {1, 15}, hi \in {0, 4, 8, 12}}
          \cup {I(code, 2, 3, p[1], p[2], 2) : code \in {106, 107, 110, 111}, p \in {<<0, 1>>, <<15, 3>>, <<15, 11>>}}
          \cup {I(code, rn, 3, hi, mid, 2) : code \in 122 .. 127, rn \in {0, 2, 4}, hi \in {0, 1}, mid \in {1, 5, 13}}
          \cup {I(126, 1, 15, 0, 5, 2), I(124, 0, 15, 0, 1, 1), I(99, 1, 3, 15, 1, 2)}, {}, 1, 0)
MediaProducts ==
  Scene(Alone({State(1 :> x @@ 2 :> y @@ 3 :> 200 @@ 4 :> a) :
                 x, y \in {0, 90, 136, 147, 255}, a \in {0, 127, 128}}),
        {I(code, 3, rd, 2, mid, 1) : code \in {112, 116, 117, 120}, mid \in {1, 3, 5, 7, 9}, rd \in {4, 15}}
          \ {I(116, 3, 15, 2, mid, 1) : mid \in 1 .. 9}, {}, 1, 0)

----------------------------------------------------------------------------
(* Transfers.                                                              *)
Bases == {62, 64, 65, 66, 76, 78}
Singles ==
  Scene(Alone({WithCarry(State(1 :> x @@ 2 :> 147 @@ 3 :> n), c) : x \in Bases, n \in {4, 253}, c \in {0, 1}}),
        {I(code, 1, 2, 0, 0, n) : code \in 64 .. 95, n \in {0, 1, 4}}
          \cup {I(code, 1, 2, hi, mid, 3) : code \in 96 .. 127, hi \in {0, 1}, mid \in {0, 2, 4, 6}}
          \cup {I(code, 1, 1, 0, 0, 4) : code \in 64 .. 79}, {}, 1, 0)
Extras ==
  Scene(Alone({State(1 :> x @@ 2 :> 147 @@ 3 :> n) : x \in Bases, n \in {1, 4, 252}}),
        {I(code, 1, rd, 0, mid, 3) : code \in 0 .. 31, mid \in {11, 13, 15}, rd \in {2, 5}}
          \cup {I(code, 1, 1, 0, 9, 3) : code \in {16, 20}}
          \cup {I(27, 1, 2, 15, 9, 15), I(26, 1, 5, 15, 9, 2)}, {}, 1, 0)
Listed(code, rn, list) ==
  LET F(k) == MapThenSumSet(LAMBDA b : 2 ^ b, {b \in 0 .. 3 : 4 * k + b \in list})
  IN I(code, rn, F(3), F(2), F(1), F(0))
Blocks ==
  Scene(Alone(UNION {{WithUser(State(1 :> x)), User(State(1 :> x))} : x \in {60, 64, 68, 71, 76}}),
        {Listed(code, 1, list) : code \in 128 .. 159, list \in {{2}, {1, 3}, {3, 13, 14}, {}, {2, 15}}},
        {}, 1, 0)
Extended64 ==
  Scene(Alone({State(1 :> x @@ 15 :> 32) : x \in {60, 64, 72, 76}}),
        {I(code, 1, 2, cp, 0, n) : code \in (192 .. 223) \ {192, 193, 194, 195, 198, 199},
                                   cp \in {10, 11}, n \in {0, 1, 2, 4}}
          \cup {I(code, 1, 2, cp, mid, 3) : code \in {196, 197}, cp \in {11, 14}, mid \in {1, 3}}
          \cup {I(code, 1, rd, cp, mid, 0) : code \in 224 .. 239, cp \in {10, 11, 15}, mid \in {1, 9}, rd \in {2, 15}}
          \cup {I(code, rn, 2, 10, 1, 0) : code \in {238, 239}, rn \in {0, 1, 8, 9}}
          \cup {I(code, 0, 2, cp, mid, 3) : mid \in {4, 6}, code \in {235, 239}, cp \in {10, 11}}
          \cup {I(225, 13, 2, 15, 7, 0), I(238, 1, 2, 15, 0, 0)}, {}, 1, 0)

----------------------------------------------------------------------------
(* Two threads with exclusive accesses to one place.                       *)
Holding(n, v) ==
  NewState(Given(0 :> 64 @@ 2 :> n @@ 4 :> 0), 32, [a \in MCMapped |-> IF a = 64 THEN v ELSE 0])
Exclusives(load, store, hi, n) ==
  Scene({<<Holding(5, v), Holding(6, v)>> : v \in {0, 1}},
        {I(load, 0, 1, hi, 9, 15), I(store, 0, 3, hi, 9, 2), I(store, 0, 3, hi, 9, 4), If(1, I(64, 0, 4, 0, 0, 0)),
         If(15, I(87, 15, 15, 0, 1, 15))},
        {}, n, 2)

----------------------------------------------------------------------------
(* Control: conditions, jumps, the size of instructions.                   *)
Conditions ==
  Scene(Alone({WithFlags(State(0 :> 0), n, z, c, v) : n, z, c, v \in {0, 1}}),
        {If(cond, I(160, 0, 0, 0, 1, 0)) : cond \in 0 .. 14}, {}, 1, 0)
Jumps ==
  Scene({<<State(2 :> 41 @@ 3 :> 48 @@ 4 :> 50 @@ 7 :> 64), Thumb(State(2 :> 41 @@ 3 :> 48 @@ 4 :> 50))>>},
        {I(18, 15, 15, 15, 1, 2), I(18, 0, 0, 0, 3, 3), I(26, 0, 1, 3, 1, 2), I(26, 0, 15, 0, 0, 4),
         I(185, 15, 15, 15, 15, 14), I(240, 0, 0, 0, 2, 5), If(0, I(160, 0, 0, 0, 0, 1)),
         I(59, 0, 15, 0, 0, 3), I(99, 0, 0, 0, 1, 0),
         If(15, I(176, 0, 0, 0, 0, 1)), If(15, I(16, 2, 0, 0, 1, 0)), If(15, I(85, 1, 15, 0, 0, 0)),
         If(15, I(117, 1, 15, 0, 0, 2)), If(15, I(193, 7, 2, 1, 0, 0)), If(15, I(1, 1, 1, 0, 0, 0))},
        {18192, 18328, 18063, 57346, 61441, 63490, 59392 + 4, 59393, 6281, 53249, 53250, 48896, 8193, 57088 + 5},
        3, 1)
Status ==
  Scene(Alone({[State(1 :> 224 @@ 15 :> 32) EXCEPT !.Spsr[3].c = 1, !.Mode = m, !.Bank = ModeToBank(m)] : m \in {16, 19, 23}}),
        {I(16, 15, 3, 0, 0, 0), I(20, 15, 3, 0, 0, 0), I(18, 8, 15, 0, 0, 1), I(50, 9, 15, 1, 0, 2),
         I(17, 0, 15, 0, 0, 1), I(19, 0, 15, 0, 0, 1), I(21, 0, 15, 0, 0, 1), I(23, 0, 15, 0, 0, 1),
         I(51, 0, 15, 0, 0, 1), I(27, 0, 15, 0, 0, 2), I(18, 0, 0, 0, 7, 0), I(48, 1, 3, 0, 1, 1),
         I(52, 1, 3, 0, 1, 1), I(18, 0, 1, 0, 9, 0)}
          \cup {If(15, I(16, 2, 0, 0, m \div 16, m % 16)) : m \in {16, 17, 18, 23}}
          \cup {Listed(157, 13, {1, 15})}, {}, 2, 0)

----------------------------------------------------------------------------
(* Thumb code.                                                             *)
ThumbArithmetic ==
  Scene(Alone({Thumb(WithCarry(State(1 :> x @@ 2 :> y), c)) : x \in Numbers, y \in Few, c \in {0, 1}}),
        {},
        {2048 * op + 64 * n + 8 + 2 : op \in 0 .. 2, n \in {0, 1, 7}}
          \cup {6144 + 512 * k + 64 * 2 + 8 + 3 : k \in 0 .. 3}
          \cup {8192 + 2048 * k + 256 * 2 + n : k \in 0 .. 3, n \in {0, 3}}
          \cup {16384 + 64 * k + 8 + 2 : k \in 0 .. 15}, 1, 0)
ThumbTransfers ==
  Scene(Alone({Thumb(State(1 :> x @@ 2 :> n @@ 3 :> 147 @@ 13 :> 68)) : x \in Bases, n \in {1, 4, 252}}),
        {},
        {20480 + 512 * k + 64 * 2 + 8 + 3 : k \in 0 .. 7}
          \cup {2048 * k + 64 * n + 8 + 3 : k \in 12 .. 17, n \in {0, 1, 2}}
          \cup {2048 * k + 256 * 3 + n : k \in {9, 18, 19, 20, 21}, n \in {0, 1}}
          \cup {17408 + 512 * k + 128 + 8 + 3 : k \in {0, 2}} \cup {17408 + 256 + 8 + 3}
          \cup {45056 + n : n \in {1, 129}} \cup {45568 + 64 * k + 8 + 3 : k \in 0 .. 3} \cup {47616 + 8 + 3}
          \cup {46080 + 256 + 9, 48128 + 9, 48128 + 256 + 9, 49152 + 256 + 12, 51200 + 256 + 14, 49152 + 256 + 10,
                57088 + 24, 57088 + 254}, 1, 0)

MCScenes ==
  <<Shifter, TwoRegisters, Immediates, Products, Saturations, Lanes, Packing, MediaProducts,
    Singles, Extras, Blocks, Extended64, Exclusives(25, 24, 15, 5), Exclusives(29, 28, 15, 4),
    Exclusives(31, 30, 15, 4), Exclusives(27, 26, 15, 3), Conditions, Jumps, Status,
    ThumbArithmetic, ThumbTransfers>>
=============================================================================
