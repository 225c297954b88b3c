----------------------------- MODULE MCStartup ------------------------------
(***************************************************************************)
(* Environments that differ from a usable one in one variable of each      *)
(* source, and every answer a starting thread tells apart.                 *)
(***************************************************************************)
EXTENDS Startup, TLC

Unset == [name \in Variables |-> "unset"]

Dotenv == [Unset EXCEPT !["MMA_SYMBOL"] = "other", !["MMA_COIN"] = "other",
                        !["MMA_ORDER_SIZE"] = "number", !["MMA_TESTNET"] = "bool"]
Secrets == [Unset EXCEPT !["API_KEY"] = "other", !["API_SECRET"] = "other"]

Usable == [process |-> Unset, dotenv_found |-> TRUE, dotenv |-> Dotenv,
           secrets_found |-> TRUE, secrets |-> Secrets]

MCStarted ==
    {Usable, [Usable EXCEPT !.dotenv_found = FALSE, !.dotenv = Unset],
             [Usable EXCEPT !.secrets_found = FALSE, !.secrets = Unset]}
    \cup {[Usable EXCEPT !.process[name] = text] : name \in Variables, text \in Texts}
    \cup {[Usable EXCEPT !.dotenv[name] = text] : name \in Variables, text \in Texts}
    \cup {[Usable EXCEPT !.secrets[name] = text] : name \in Variables, text \in Texts}

Entry(coin, equity) == [coin |-> coin, equity |-> equity]
Wallet(accounts) == [ret_code |-> 0, accounts |-> accounts]

MCWalletAnswers ==
    {[ret_code |-> 10002, accounts |-> <<>>],
     Wallet(<<>>), Wallet(<< <<Entry(Coin, 1)>>, <<>> >>),
     Wallet(<< <<Entry(Coin, 1), Entry(Coin, 2)>> >>),
     Wallet(<< <<Entry("USDT", 7)>> >>), Wallet(<< <<Entry(Coin, 0)>> >>),
     Wallet(<< <<Entry("USDT", 7), Entry(Coin, 2)>> >>)}

Instrument(symbol, usable) == [symbol |-> symbol, usable |-> usable]
Instruments(list) == [ret_code |-> 0, instruments |-> list]

MCInstrumentAnswers ==
    {[ret_code |-> 10001, instruments |-> <<>>],
     Instruments(<<Instrument("BTCUSDT", TRUE), Instrument(Symbol, TRUE)>>),
     Instruments(<<Instrument("BTCUSDT", TRUE)>>),
     Instruments(<<Instrument(Symbol, FALSE), Instrument(Symbol, TRUE)>>)}

MCTradesAnswers == {[ret_code |-> 0, prices |-> <<5, 4>>],
                    [ret_code |-> 0, prices |-> <<>>],
                    [ret_code |-> 10001, prices |-> <<>>]}

MCExecutedSizes == {-2, 1}
=============================================================================
