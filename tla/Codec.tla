-------------------------------- MODULE Codec --------------------------------
(***************************************************************************)
(* The integer codes of the transactions table and their decoders.  A      *)
(* currency or method as a caller spells it is a record: its letters in    *)
(* the table's own case, and whether the caller wrote them in that case.   *)
(***************************************************************************)
EXTENDS Integers

\* The error result of an encoder or a decoder.
Err == -1

----------------------------------------------------------------------------
statusCode == [created |-> 0, pending |-> 1, paid |-> 2,
               failed |-> 3, expired |-> 4, refunded |-> 5]

encodeStatus(s) == IF s \in DOMAIN statusCode THEN statusCode[s] ELSE Err

decodeStatus(v) ==
  CASE v = 0 -> "created" [] v = 1 -> "pending" [] v = 2 -> "paid"
    [] v = 3 -> "failed"  [] v = 4 -> "expired" [] v = 5 -> "refunded"
    [] OTHER -> "decode_error"

----------------------------------------------------------------------------
\* A spelling, and what strings.ToUpper or strings.ToLower makes of it.
Spelling(S) == [letters: S, canonical: BOOLEAN]

Fold(s) == s.letters

methodUnknown == 9

methodToCode == [card |-> 0, crypto_eth |-> 1, wallet |-> 2, bank_transfer |-> 3,
                 klarna |-> 4, afterpay |-> 5, affirm |-> 6, sepa_debit |-> 7,
                 us_bank_account |-> 8]

encodeMethod(s) ==
  IF Fold(s) \in DOMAIN methodToCode THEN methodToCode[Fold(s)] ELSE methodUnknown

codeToMethod(v) ==
  CASE v = 0 -> "card"   [] v = 1 -> "crypto_eth" [] v = 2 -> "wallet"
    [] v = 3 -> "bank_transfer" [] v = 4 -> "klarna" [] v = 5 -> "afterpay"
    [] v = 6 -> "affirm" [] v = 7 -> "sepa_debit" [] v = 8 -> "us_bank_account"
    [] OTHER -> "unknown"

decodeMethod(v) == codeToMethod(v)

----------------------------------------------------------------------------
\* Mutant: the Thai baht under the Swiss franc's neighbour, 756 for 764.
currencyToCode_Clash ==
  [USD |-> 840, EUR |-> 978, GBP |-> 826, JPY |-> 392, CNY |-> 156, AUD |-> 36,
   CAD |-> 124, CHF |-> 756, HKD |-> 344, IDR |-> 360, INR |-> 356, KRW |-> 410,
   MYR |-> 458, NZD |-> 554, PHP |-> 608, SGD |-> 702, THB |-> 756, TWD |-> 901,
   VND |-> 704]

currencyToCode ==
  [USD |-> 840, EUR |-> 978, GBP |-> 826, JPY |-> 392, CNY |-> 156, AUD |-> 36,
   CAD |-> 124, CHF |-> 756, HKD |-> 344, IDR |-> 360, INR |-> 356, KRW |-> 410,
   MYR |-> 458, NZD |-> 554, PHP |-> 608, SGD |-> 702, THB |-> 764, TWD |-> 901,
   VND |-> 704]

Currencies == DOMAIN currencyToCode

\* The map built by inverting the table: one of the names, if two share a code.
codeToCurrency(v) == CHOOSE c \in Currencies : currencyToCode[c] = v

encodeCurrency(s) == IF Fold(s) \in Currencies THEN currencyToCode[Fold(s)] ELSE Err

decodeCurrency(v) ==
  IF \E c \in Currencies : currencyToCode[c] = v THEN codeToCurrency(v) ELSE "decode_error"
=============================================================================
